---- MODULE Spec2Model ----
(***************************************************************************)
(* A model of the flux container of gammapy.estimators: FluxMaps           *)
(* (flux_map.py) and FluxPoints (flux_point.py).                           *)
(*                                                                         *)
(* A map / table column is an array with one value per energy bin (the     *)
(* spatial axes carry no behaviour of their own: every operation below is  *)
(* elementwise, and the reference factors are replicated over them).       *)
(* A value is an IEEE number kept exactly: <<n, d>> is the rational n/d in *)
(* lowest terms (d > 0), <<0, 0>> is NaN, <<1, 0>> is +inf, <<-1, 0>> is   *)
(* -inf.  Rounding is not modelled; units are not modelled.                *)
(***************************************************************************)
EXTENDS Integers, Sequences, FiniteSets, TLC

(* ----------------------------- bounds --------------------------------- *)

\* number of energy bins of the energy axis shared by all quantities
NBins == 2
\* a caller's mapping holds at most this many optional entries
MaxExtra == 2
\* the value tables the inputs are drawn from are numbered 0..MaxSeed
MaxSeed == 1

\* the most warnings kept in the log
MaxLog == 2

\* the most energy edges of a run of the estimator
MaxEdges == 4
MaxFiles == 2

Bins == 1..NBins

(* ------------------------ IEEE values, exactly ------------------------ *)

NaN == <<0, 0>>
Inf == <<1, 0>>
NInf == <<-1, 0>>

Abs(n) == IF n < 0 THEN -n ELSE n

Sgn(n) == IF n < 0 THEN -1 ELSE IF n > 0 THEN 1 ELSE 0

RECURSIVE GCD(_, _)
GCD(a, b) == IF b = 0 THEN a ELSE GCD(b, a % b)

\* the value n/d (d >= 0) in lowest terms
Q(n, d) ==
    IF d = 0 THEN <<Sgn(n), 0>>
    ELSE LET g == GCD(Abs(n), d) IN <<n \div g, d \div g>>

Num(n) == <<n, 1>>

isnan(v) == v[1] = 0 /\ v[2] = 0

isfinite(v) == v[2] # 0

\* a * b (numpy multiply): inf * 0 and anything with NaN give NaN
Mul(a, b) == Q(a[1] * b[1], a[2] * b[2])

\* 1 / b: 1/0 = inf, 1/inf = 0, 1/NaN = NaN
Recip(b) == IF b[1] < 0 THEN <<-b[2], -b[1]>> ELSE <<b[2], b[1]>>

\* a / b (numpy true_divide under errstate ignore): x/0 = +-inf, 0/0 = NaN
Div(a, b) == Mul(a, Recip(b))

Neg(a) == <<-a[1], a[2]>>

\* a - b (numpy subtract): inf - inf = NaN
Sub(a, b) ==
    IF isnan(a) \/ isnan(b) THEN NaN
    ELSE IF a[2] = 0 /\ b[2] = 0 THEN (IF a = b THEN NaN ELSE a)
    ELSE IF a[2] = 0 THEN a
    ELSE IF b[2] = 0 THEN Neg(b)
    ELSE Q(a[1] * b[2] - b[1] * a[2], a[2] * b[2])

\* a < b (numpy less): FALSE when either is NaN
Lt(a, b) ==
    IF isnan(a) \/ isnan(b) THEN FALSE
    ELSE IF a[2] = 0 /\ b[2] = 0 THEN a = NInf /\ b = Inf
    ELSE a[1] * b[2] < b[1] * a[2]

\* np.sqrt under errstate ignore: NaN for a negative or NaN argument.  An
\* irrational root is kept as the surd <<n, d, 1>> (the root of n/d).
IsSquare(n) == \E r \in 0..n : r * r = n

ISqrt(n) == CHOOSE r \in 0..n : r * r = n

Sqrt(v) ==
    IF isnan(v) \/ v[1] < 0 THEN NaN
    ELSE IF v[2] = 0 THEN Inf
    ELSE IF IsSquare(v[1]) /\ IsSquare(v[2]) THEN <<ISqrt(v[1]), ISqrt(v[2])>>
    ELSE <<v[1], v[2], 1>>

\* unary minus, also of a surd
Minus(v) == IF Len(v) = 3 THEN <<v[1], v[2], -v[3]>> ELSE Neg(v)

(* --------------------------- the registry ----------------------------- *)

REQUIRED_MAPS ==
    [dnde |-> <<"dnde">>, e2dnde |-> <<"e2dnde">>, flux |-> <<"flux">>,
     eflux |-> <<"eflux">>, likelihood |-> <<"norm">>]

REQUIRED_COLUMNS ==
    [dnde |-> <<"e_ref", "dnde">>,
     e2dnde |-> <<"e_ref", "e2dnde">>,
     flux |-> <<"e_min", "e_max", "flux">>,
     eflux |-> <<"e_min", "e_max", "eflux">>,
     likelihood |-> <<"e_min", "e_max", "e_ref", "ref_dnde", "ref_flux",
                      "ref_eflux", "norm">>]

REQUIRED_QUANTITIES_SCAN == <<"stat_scan", "stat">>

OPTIONAL_QUANTITIES ==
    [dnde |-> <<"dnde_err", "dnde_errp", "dnde_errn", "dnde_ul">>,
     e2dnde |-> <<"e2dnde_err", "e2dnde_errp", "e2dnde_errn", "e2dnde_ul">>,
     flux |-> <<"flux_err", "flux_errp", "flux_errn", "flux_ul">>,
     eflux |-> <<"eflux_err", "eflux_errp", "eflux_errn", "eflux_ul">>,
     likelihood |-> <<"norm_err", "norm_errn", "norm_errp", "norm_ul">>]

VALID_QUANTITIES ==
    <<"norm", "norm_err", "norm_errn", "norm_errp", "norm_ul", "ts",
      "sqrt_ts", "npred", "npred_excess", "npred_null", "stat", "stat_scan",
      "stat_null", "niter", "is_ul", "counts">>

OPTIONAL_QUANTITIES_COMMON ==
    <<"ts", "sqrt_ts", "npred", "npred_excess", "npred_null", "stat",
      "stat_null", "niter", "counts">>

Range(s) == {s[i] : i \in DOMAIN s}

\* the five families of quantity names; "norm" is the family of likelihood
FamilyNames ==
    [dnde |-> [val |-> "dnde", err |-> "dnde_err", errn |-> "dnde_errn",
               errp |-> "dnde_errp", ul |-> "dnde_ul"],
     e2dnde |-> [val |-> "e2dnde", err |-> "e2dnde_err", errn |-> "e2dnde_errn",
                 errp |-> "e2dnde_errp", ul |-> "e2dnde_ul"],
     flux |-> [val |-> "flux", err |-> "flux_err", errn |-> "flux_errn",
               errp |-> "flux_errp", ul |-> "flux_ul"],
     eflux |-> [val |-> "eflux", err |-> "eflux_err", errn |-> "eflux_errn",
                errp |-> "eflux_errp", ul |-> "eflux_ul"],
     norm |-> [val |-> "norm", err |-> "norm_err", errn |-> "norm_errn",
               errp |-> "norm_errp", ul |-> "norm_ul"]]

Suffixes == {"val", "err", "errn", "errp", "ul"}

FluxFamilies == {"dnde", "e2dnde", "flux", "eflux"}

FluxNames == {FamilyNames[f][s] : f \in FluxFamilies, s \in Suffixes}

\* str.replace(old, "norm") on a quantity name: the name of the sed type is
\* replaced wherever it occurs ("flux" also inside "eflux", "dnde" inside
\* "e2dnde"); a name without it is returned as it is
replace(key, old) ==
    IF \E s \in Suffixes : key = FamilyNames[old][s]
    THEN FamilyNames["norm"][CHOOSE s \in Suffixes : key = FamilyNames[old][s]]
    ELSE IF old = "flux" /\ \E s \in Suffixes : key = FamilyNames["eflux"][s]
    THEN [val |-> "enorm", err |-> "enorm_err", errn |-> "enorm_errn",
          errp |-> "enorm_errp", ul |-> "enorm_ul"]
            [CHOOSE s \in Suffixes : key = FamilyNames["eflux"][s]]
    ELSE IF old = "dnde" /\ \E s \in Suffixes : key = FamilyNames["e2dnde"][s]
    THEN [val |-> "e2norm", err |-> "e2norm_err", errn |-> "e2norm_errn",
          errp |-> "e2norm_errp", ul |-> "e2norm_ul"]
            [CHOOSE s \in Suffixes : key = FamilyNames["e2dnde"][s]]
    ELSE key

\* FluxMaps.all_quantities: a KeyError for a sed type the tables do not know
all_quantities(sed_type) ==
    IF sed_type \notin DOMAIN REQUIRED_MAPS
    THEN [status |-> "KeyError", val |-> <<>>]
    ELSE [status |-> "ok",
          val |-> REQUIRED_MAPS[sed_type] \o OPTIONAL_QUANTITIES[sed_type]
                    \o OPTIONAL_QUANTITIES_COMMON
                    \o (IF sed_type = "likelihood"
                        THEN REQUIRED_QUANTITIES_SCAN ELSE <<>>)]

\* FluxMaps._validate_data: the set of required names, and the outcome
validate_required(sed_type, check_scan) ==
    Range(REQUIRED_MAPS[sed_type])
        \cup (IF check_scan THEN Range(REQUIRED_QUANTITIES_SCAN) ELSE {})

\* mutant of _validate_data: all the required names are reported missing
_validate_data_all(keys, sed_type, check_scan) ==
    IF sed_type \notin DOMAIN REQUIRED_MAPS
    THEN [status |-> "ValueError", msg |-> "Unknown SED type", missing |-> {}]
    ELSE IF ~(validate_required(sed_type, check_scan) \subseteq keys)
    THEN [status |-> "ValueError", msg |-> "Missing data / column",
          missing |-> validate_required(sed_type, check_scan)]
    ELSE [status |-> "ok", msg |-> "", missing |-> {}]

_validate_data(keys, sed_type, check_scan) ==
    IF sed_type \notin DOMAIN REQUIRED_MAPS
    THEN [status |-> "ValueError", msg |-> "Unknown SED type", missing |-> {}]
    ELSE IF ~(validate_required(sed_type, check_scan) \subseteq keys)
    THEN [status |-> "ValueError", msg |-> "Missing data / column",
          missing |-> validate_required(sed_type, check_scan) \ keys]
    ELSE [status |-> "ok", msg |-> "", missing |-> {}]

(* ------------------- the reference spectral model --------------------- *)

\* The spectral models are gammapy.modeling.models, outside this package:
\* a model is known by its tag and index, and by the three numbers it
\* gives per energy bin.  The energy axis has the edges 1, 4, 16, ... TeV
\* and log-centred bins, so the centre of bin b is 2 * 4^(b-1).
PWL2 == [tag |-> "PowerLawSpectralModel", index |-> 2, values |-> <<>>]

PWL3 == [tag |-> "PowerLawSpectralModel", index |-> 3, values |-> <<>>]

\* TemplateSpectralModel(energy, values): one value per bin centre
TemplateSpectralModel(values) ==
    [tag |-> "TemplateSpectralModel", index |-> 0, values |-> values]

TPL == TemplateSpectralModel([b \in Bins |-> Num(b - 1)])

\* PowerLawSpectralModel(): the index defaults to 2
PowerLawSpectralModel == PWL2

RECURSIVE Pow(_, _)
Pow(x, k) == IF k = 0 THEN 1 ELSE x * Pow(x, k - 1)

energy_min(b) == Num(Pow(4, b - 1))

energy_max(b) == Num(Pow(4, b))

energy_center(b) == Num(2 * Pow(4, b - 1))

\* SpectralModel.__call__(energy) at the centre of bin b
evaluate(m, b) ==
    IF m = PWL2 THEN Q(1, 4 * Pow(16, b - 1))
    ELSE IF m = PWL3 THEN Q(1, 8 * Pow(64, b - 1))
    ELSE m.values[b]

\* SpectralModel.integral(energy_min, energy_max) over bin b (a template
\* is taken as flat over the bin)
integral(m, b) ==
    IF m = PWL2 THEN Q(3, Pow(4, b))
    ELSE IF m = PWL3 THEN Q(15, 2 * Pow(16, b))
    ELSE Mul(m.values[b], Sub(energy_max(b), energy_min(b)))

\* SpectralModel.energy_flux(energy_min, energy_max) over bin b (ln 4 for
\* index 2, kept as the rational 7/5)
energy_flux(m, b) ==
    IF m = PWL2 THEN Q(7, 5)
    ELSE IF m = PWL3 THEN Q(3, Pow(4, b))
    ELSE Mul(Mul(m.values[b], energy_center(b)), Sub(energy_max(b), energy_min(b)))

\* SpectralModel.reference_fluxes(energy_axis): the factors per sed type
reference_fluxes(m) ==
    [e_ref |-> [b \in Bins |-> energy_center(b)],
     e_min |-> [b \in Bins |-> energy_min(b)],
     e_max |-> [b \in Bins |-> energy_max(b)],
     ref_dnde |-> [b \in Bins |-> evaluate(m, b)],
     ref_flux |-> [b \in Bins |-> integral(m, b)],
     ref_eflux |-> [b \in Bins |-> energy_flux(m, b)],
     ref_e2dnde |-> [b \in Bins |->
                       Mul(evaluate(m, b), Mul(energy_center(b), energy_center(b)))]]

ref_key(sed_type) ==
    [dnde |-> "ref_dnde", e2dnde |-> "ref_e2dnde", flux |-> "ref_flux",
     eflux |-> "ref_eflux"][sed_type]

NoModel == [kind |-> "None", spectral |-> [tag |-> "None", index |-> 0, values |-> <<>>]]

SkyModel(m) == [kind |-> "SkyModel", spectral |-> m]

SpectralModel(m) == [kind |-> "SpectralModel", spectral |-> m]

\* mutant of reference_model_default: the index is 3
reference_model_default_steep == SkyModel(PWL3)

\* FluxMaps.reference_model_default
reference_model_default == SkyModel(PWL2)

(* --------------------------- the container ---------------------------- *)

EmptyDict == [k \in {} |-> <<>>]

Ok(v) == [status |-> "ok", val |-> v]

Raise(e) == [status |-> e, val |-> <<>>]

NoContainer ==
    [exists |-> FALSE, data |-> EmptyDict, reference_model |-> NoModel,
     meta |-> EmptyDict, gti |-> "None"]

\* FluxMaps.__init__: the mapping is kept as given, a spectral model is
\* wrapped into a sky model, a meta of None becomes an empty dict
FluxMapsInit(data, reference_model, meta, gti) ==
    [exists |-> TRUE,
     data |-> data,
     reference_model |->
        IF reference_model.kind = "SpectralModel"
        THEN SkyModel(reference_model.spectral) ELSE reference_model,
     meta |-> IF meta.none THEN EmptyDict ELSE meta.dict,
     gti |-> gti]

available_quantities(self) == DOMAIN self.data

\* mutant of _check_quantity: the check is left out, the lookup of a
\* missing quantity fails with KeyError
_check_quantity_unchecked(self, quantity) ==
    IF quantity \notin DOMAIN self.data
    THEN [status |-> "KeyError", val |-> <<>>]
    ELSE [status |-> "ok", val |-> self.data[quantity]]

\* FluxMaps._check_quantity followed by the read of self._data[quantity]
_check_quantity(self, quantity) ==
    IF quantity \notin available_quantities(self)
    THEN Raise("AttributeError") ELSE Ok(self.data[quantity])

\* mutant of ts_threshold_ul: the default is 2
ts_threshold_ul_two(self) ==
    IF "ts_threshold_ul" \in DOMAIN self.meta
    THEN self.meta["ts_threshold_ul"] ELSE 2

\* FluxMaps.ts_threshold_ul: meta.get("ts_threshold_ul", 4)
ts_threshold_ul(self) ==
    IF "ts_threshold_ul" \in DOMAIN self.meta
    THEN self.meta["ts_threshold_ul"] ELSE 4

\* FluxMaps.n_sigma: meta.get("n_sigma", 1)
n_sigma(self) ==
    IF "n_sigma" \in DOMAIN self.meta THEN self.meta["n_sigma"] ELSE 1

\* FluxMaps.n_sigma_ul: meta.get("n_sigma_ul"), None without the key
n_sigma_ul(self) ==
    IF "n_sigma_ul" \in DOMAIN self.meta
    THEN [none |-> FALSE, val |-> self.meta["n_sigma_ul"]]
    ELSE [none |-> TRUE, val |-> 0]

\* FluxMaps.sed_type_init: meta.get("sed_type_init"), None without the key
sed_type_init(self) ==
    IF "sed_type_init" \in DOMAIN self.meta
    THEN [none |-> FALSE, val |-> self.meta["sed_type_init"]]
    ELSE [none |-> TRUE, val |-> ""]

\* FluxMaps.norm: a plain lookup in the mapping
norm(self) ==
    IF "norm" \in DOMAIN self.data THEN Ok(self.data["norm"]) ELSE Raise("KeyError")

\* mutant of is_ul: norm_ul alone is looked at before ts
is_ul_norm_ul_first(self) ==
    IF "norm" \notin DOMAIN self.data THEN [status |-> "KeyError", val |-> <<>>]
    ELSE IF "norm_ul" \in DOMAIN self.data
    THEN [status |-> "ok", val |-> [b \in Bins |-> isfinite(self.data["norm_ul"][b])]]
    ELSE [status |-> "ok", val |-> [b \in Bins |-> isnan(self.data["norm"][b])]]

\* FluxMaps.is_ul
is_ul(self) ==
    IF norm(self).status # "ok" THEN norm(self)
    ELSE IF "ts" \in DOMAIN self.data /\ "norm_ul" \in DOMAIN self.data
    THEN Ok([b \in Bins |-> Lt(self.data["ts"][b], Num(ts_threshold_ul(self)))])
    ELSE IF "norm_ul" \in DOMAIN self.data
    THEN Ok([b \in Bins |-> isfinite(self.data["norm_ul"][b])])
    ELSE Ok([b \in Bins |-> isnan(self.data["norm"][b])])

\* FluxMaps.npred_excess
npred_excess(self) ==
    IF _check_quantity(self, "npred").status # "ok"
    THEN _check_quantity(self, "npred")
    ELSE IF _check_quantity(self, "npred_null").status # "ok"
    THEN _check_quantity(self, "npred_null")
    ELSE Ok([b \in Bins |-> Sub(self.data["npred"][b], self.data["npred_null"][b])])

\* FluxMaps.sqrt_ts
sqrt_ts(self) ==
    IF "sqrt_ts" \in DOMAIN self.data THEN Ok(self.data["sqrt_ts"])
    ELSE IF norm(self).status # "ok" THEN norm(self)
    ELSE IF _check_quantity(self, "ts").status # "ok"
    THEN _check_quantity(self, "ts")
    ELSE Ok([b \in Bins |->
               IF Lt(Num(0), self.data["norm"][b])
               THEN Sqrt(self.data["ts"][b])
               ELSE Minus(Sqrt(self.data["ts"][b]))])

\* FluxMaps.reference_spectral_model: None has no attribute spectral_model
reference_spectral_model(self) ==
    IF self.reference_model.kind = "None" THEN Raise("AttributeError")
    ELSE Ok(self.reference_model.spectral)

\* FluxMaps.energy_axis: the geometry is that of the norm map
energy_axis(self) == norm(self)

\* FluxMaps.dnde_ref: the model is looked up before the energy axis
dnde_ref(self) ==
    IF reference_spectral_model(self).status # "ok"
    THEN reference_spectral_model(self)
    ELSE IF energy_axis(self).status # "ok" THEN energy_axis(self)
    ELSE Ok([b \in Bins |-> evaluate(self.reference_model.spectral, b)])

\* FluxMaps.e2dnde_ref, flux_ref, eflux_ref: the energy axis comes first
e2dnde_ref(self) ==
    IF energy_axis(self).status # "ok" THEN energy_axis(self)
    ELSE IF reference_spectral_model(self).status # "ok"
    THEN reference_spectral_model(self)
    ELSE Ok([b \in Bins |->
               Mul(evaluate(self.reference_model.spectral, b),
                   Mul(energy_center(b), energy_center(b)))])

flux_ref(self) ==
    IF energy_axis(self).status # "ok" THEN energy_axis(self)
    ELSE IF reference_spectral_model(self).status # "ok"
    THEN reference_spectral_model(self)
    ELSE Ok([b \in Bins |-> integral(self.reference_model.spectral, b)])

eflux_ref(self) ==
    IF energy_axis(self).status # "ok" THEN energy_axis(self)
    ELSE IF reference_spectral_model(self).status # "ok"
    THEN reference_spectral_model(self)
    ELSE Ok([b \in Bins |-> energy_flux(self.reference_model.spectral, b)])

family_ref(self, family) ==
    IF family = "dnde" THEN dnde_ref(self)
    ELSE IF family = "e2dnde" THEN e2dnde_ref(self)
    ELSE IF family = "flux" THEN flux_ref(self)
    ELSE eflux_ref(self)

\* the stored norm quantity of a suffix: norm is a plain lookup, the others
\* are checked
norm_quantity(self, suffix) ==
    IF suffix = "val" THEN norm(self)
    ELSE _check_quantity(self, FamilyNames["norm"][suffix])

\* FluxMaps.dnde ... FluxMaps.eflux_ul: norm quantity * reference factor
flux_quantity(self, family, suffix) ==
    LET n == norm_quantity(self, suffix)
        ref == family_ref(self, family)
    IN IF n.status # "ok" THEN n
       ELSE IF ref.status # "ok" THEN ref
       ELSE Ok([b \in Bins |-> Mul(n.val[b], ref.val[b])])

\* FluxMaps.__init__: self._data = data and self.meta = meta are the
\* objects the caller gave, not copies of them
__init___held == {"data", "meta"}

\* FluxMaps.from_maps: the sed type likelihood hands maps to the
\* constructor, the others hand it a new dict; meta is handed on as it is
from_maps_held(sed_type) ==
    IF sed_type = "likelihood" THEN __init___held
    ELSE __init___held \ {"data"}

\* the container after the caller has changed an object it gave, the
\* mapping ("data") or the meta dict ("meta"), to the value changed: a
\* container that holds the object itself has the change
changed(self, held, object, value) ==
    IF object \notin held THEN self
    ELSE IF object = "data" THEN [self EXCEPT !.data = value]
    ELSE [self EXCEPT !.meta = value]

\* the container after the items are assigned to an object: to the maps it
\* stores (self._data), to its meta (self.meta), or to an object that the
\* operation made, which leaves the container as it was
assigned(self, object, items) ==
    IF object = "self._data"
    THEN [self EXCEPT !.data = [q \in DOMAIN items \cup DOMAIN self.data |->
                                  IF q \in DOMAIN items THEN items[q]
                                  ELSE self.data[q]]]
    ELSE IF object = "self.meta"
    THEN [self EXCEPT !.meta = [k \in DOMAIN items \cup DOMAIN self.meta |->
                                  IF k \in DOMAIN items THEN items[k]
                                  ELSE self.meta[k]]]
    ELSE self

\* FluxMaps.is_ul: the map whose data is assigned is a copy of norm
is_ul_assigned == "self.norm.copy()"

\* FluxMaps.to_maps: the maps are put in a new Maps
to_maps_assigned == "Maps()"

\* FluxMaps.to_hdulist: the sed type is put in the header of a new HDU
to_hdulist_assigned == "fits.PrimaryHDU()"

\* mutant of to_table_assigned: the meta of the table is that of the container
to_table_assigned_meta == "self.meta"

\* FluxPoints.to_table: the columns and the sed type are put in a new Table
to_table_assigned == "Table()"

\* FluxMaps.get_flux_points: the maps are put in a new dict
get_flux_points_assigned == "{}"

CheckedNames ==
    {"niter", "counts", "npred", "npred_null", "stat_scan", "stat",
     "stat_null", "ts", "norm_err", "norm_errn", "norm_errp", "norm_ul"}

RefNames == {"dnde_ref", "e2dnde_ref", "flux_ref", "eflux_ref"}

\* the properties of the class that name a quantity
PropertyNames ==
    CheckedNames \cup RefNames \cup FluxNames
        \cup {"norm", "is_ul", "npred_excess", "sqrt_ts"}

\* getattr(self, name): the property of that name, an AttributeError for a
\* name the class does not define
getattr(self, name) ==
    IF name \in CheckedNames THEN _check_quantity(self, name)
    ELSE IF name = "norm" THEN norm(self)
    ELSE IF name = "is_ul" THEN is_ul(self)
    ELSE IF name = "npred_excess" THEN npred_excess(self)
    ELSE IF name = "sqrt_ts" THEN sqrt_ts(self)
    ELSE IF name = "dnde_ref" THEN dnde_ref(self)
    ELSE IF name = "e2dnde_ref" THEN e2dnde_ref(self)
    ELSE IF name = "flux_ref" THEN flux_ref(self)
    ELSE IF name = "eflux_ref" THEN eflux_ref(self)
    ELSE IF name \in FluxNames
    THEN LET fam == CHOOSE f \in FluxFamilies :
                        \E s \in Suffixes : FamilyNames[f][s] = name
             suf == CHOOSE s \in Suffixes : FamilyNames[fam][s] = name
         IN flux_quantity(self, fam, suf)
    ELSE Raise("AttributeError")

\* the container after getattr(self, name): is_ul assigns the data of a map
getattr_after(self, name) ==
    IF name = "is_ul" /\ is_ul(self).status = "ok"
    THEN assigned(self, is_ul_assigned, [norm |-> is_ul(self).val])
    ELSE self

\* attributes of the class that are no quantity
OtherAttributes ==
    {"meta", "gti", "ts_threshold_ul", "available_quantities", "to_maps"}

\* FluxMaps.__getitem__: getattr(self, item), whatever the attribute is; an
\* attribute that is no quantity is returned as the object it is
__getitem__(self, item) ==
    IF item = "meta" THEN Ok([object |-> "dict", value |-> self.meta])
    ELSE IF item = "gti" THEN Ok([object |-> "GTI", value |-> self.gti])
    ELSE IF item = "ts_threshold_ul"
    THEN Ok([object |-> "number", value |-> ts_threshold_ul(self)])
    ELSE IF item = "available_quantities"
    THEN Ok([object |-> "list", value |-> available_quantities(self)])
    ELSE IF item = "to_maps" THEN Ok([object |-> "method", value |-> "to_maps"])
    ELSE getattr(self, item)

\* getattr(self, name, None)
getattr_or_none(self, name) ==
    LET m == getattr(self, name)
    IN IF m.status = "AttributeError"
       THEN [status |-> "ok", none |-> TRUE, val |-> <<>>]
       ELSE [status |-> m.status, none |-> FALSE, val |-> m.val]

\* FluxMaps.to_maps: the quantities of the sed type that the container can
\* give; an error other than AttributeError leaves the loop
to_maps(self, sed_type) ==
    IF all_quantities(sed_type).status # "ok" THEN Raise(all_quantities(sed_type).status)
    ELSE LET names == Range(all_quantities(sed_type).val)
             got == [q \in names |-> getattr_or_none(self, q)]
             failed == {q \in names : got[q].status # "ok"}
             kept == {q \in names : ~got[q].none}
         IN IF failed # {}
            THEN Raise(got[CHOOSE q \in failed : TRUE].status)
            ELSE Ok([q \in kept |-> got[q].val])

\* mutant of _guess_sed_type: the last sed type that fits is taken
_guess_sed_type_last(quantities) ==
    LET order == <<"dnde", "e2dnde", "flux", "eflux", "likelihood">>
        fits == {i \in DOMAIN order :
                   Range(REQUIRED_COLUMNS[order[i]]) \subseteq quantities}
    IN IF fits = {} THEN "None"
       ELSE order[CHOOSE i \in fits : \A j \in fits : i >= j]

\* FluxMaps._guess_sed_type: the first sed type, in the order of
\* REQUIRED_COLUMNS, whose required columns are all among the names
SedTypeOrder == <<"dnde", "e2dnde", "flux", "eflux", "likelihood">>

_guess_sed_type(quantities) ==
    LET fits == {i \in DOMAIN SedTypeOrder :
                   Range(REQUIRED_COLUMNS[SedTypeOrder[i]]) \subseteq quantities}
    IN IF fits = {} THEN "None"
       ELSE SedTypeOrder[CHOOSE i \in fits : \A j \in fits : i <= j]

NoWarning == <<>>

WarnFluxMaps == "No reference model set for FluxMaps. Assuming point source with E^-2 spectrum."

WarnFluxPoints == "No reference model set for FluxPoints. Assuming point source with E^-2 spectrum."

Failed(error, msg) ==
    [status |-> error, msg |-> msg, container |-> NoContainer, log |-> NoWarning]

\* mutant of from_maps_data: the common quantities are not copied
from_maps_data_norm_only(maps, sed_type, spectral) ==
    LET factor == reference_fluxes(spectral)[ref_key(sed_type)]
        optional == {key \in Range(OPTIONAL_QUANTITIES[sed_type]) : key \in DOMAIN maps}
        source(q) == CHOOSE key \in optional : replace(key, sed_type) = q
    IN [q \in {"norm"} \cup {replace(key, sed_type) : key \in optional} |->
          IF q = "norm" THEN [b \in Bins |-> Div(maps[sed_type][b], factor[b])]
          ELSE [b \in Bins |-> Div(maps[source(q)][b], factor[b])]]

\* mutant of from_maps_data: the optional quantities are renamed and not
\* divided by the factor
from_maps_data_renamed(maps, sed_type, spectral) ==
    LET factor == reference_fluxes(spectral)[ref_key(sed_type)]
        optional == {key \in Range(OPTIONAL_QUANTITIES[sed_type]) : key \in DOMAIN maps}
        common == {key \in Range(OPTIONAL_QUANTITIES_COMMON) : key \in DOMAIN maps}
        source(q) == CHOOSE key \in optional : replace(key, sed_type) = q
    IN [q \in {"norm"} \cup {replace(key, sed_type) : key \in optional} \cup common |->
          IF q = "norm" THEN [b \in Bins |-> Div(maps[sed_type][b], factor[b])]
          ELSE IF q \in common THEN maps[q]
          ELSE maps[source(q)]]

\* FluxMaps.from_maps, the conversion of a flux-like sed type to norm
from_maps_data(maps, sed_type, spectral) ==
    LET factor == reference_fluxes(spectral)[ref_key(sed_type)]
        optional == {key \in Range(OPTIONAL_QUANTITIES[sed_type]) : key \in DOMAIN maps}
        common == {key \in Range(OPTIONAL_QUANTITIES_COMMON) : key \in DOMAIN maps}
        source(q) == CHOOSE key \in optional : replace(key, sed_type) = q
    IN [q \in {"norm"} \cup {replace(key, sed_type) : key \in optional} \cup common |->
          IF q = "norm" THEN [b \in Bins |-> Div(maps[sed_type][b], factor[b])]
          ELSE IF q \in common THEN maps[q]
          ELSE [b \in Bins |-> Div(maps[source(q)][b], factor[b])]]

\* FluxMaps.from_maps
from_maps(maps, sed_type_arg, reference_model, gti, meta) ==
    LET sed_type == IF sed_type_arg = "None"
                    THEN _guess_sed_type(DOMAIN maps) ELSE sed_type_arg
        valid == _validate_data(DOMAIN maps, sed_type, FALSE)
        model == IF reference_model.kind = "None" THEN reference_model_default
                 ELSE IF reference_model.kind = "SpectralModel"
                 THEN SkyModel(reference_model.spectral)
                 ELSE reference_model
    IN IF sed_type = "None"
       THEN Failed("ValueError", "Specifying the sed type is required")
       ELSE IF valid.status # "ok" THEN Failed(valid.status, valid.msg)
       ELSE IF sed_type = "likelihood"
       THEN [status |-> "ok", msg |-> "",
             container |-> FluxMapsInit(maps, reference_model, meta, gti),
             log |-> NoWarning]
       ELSE [status |-> "ok", msg |-> "",
             container |-> FluxMapsInit(
                 from_maps_data(maps, sed_type, model.spectral), model, meta, gti),
             log |-> IF reference_model.kind = "None"
                     THEN <<WarnFluxMaps>> ELSE NoWarning]

(* ------------------------------ tables -------------------------------- *)

EnergyColumns == {"e_ref", "e_min", "e_max"}

RefColumns == {"ref_dnde", "ref_flux", "ref_eflux"}

\* FluxPoints(data, reference_spectral_model, meta): the mapping and the
\* meta are kept as given, the spectral model is the container's reference
FluxPointsInit(data, spectral, meta) ==
    [exists |-> TRUE,
     data |-> data,
     reference_model |-> SkyModel(spectral),
     meta |-> meta,
     gti |-> "None"]

\* the centers of the norm axis of a stat_scan map
norm_scan_values == [b \in Bins |-> Num(b)]

\* the quantities of to_table, in the order of the loop
to_table_quantities(sed_type) ==
    REQUIRED_COLUMNS[sed_type] \o OPTIONAL_QUANTITIES[sed_type]
        \o OPTIONAL_QUANTITIES_COMMON

\* FluxPoints.to_table, one pass of the loop: the energy and reference
\* columns are read directly, the others with getattr(self, quantity, None)
to_table_column(self, quantity) ==
    IF quantity \in EnergyColumns
    THEN IF energy_axis(self).status # "ok"
         THEN [status |-> energy_axis(self).status, none |-> FALSE, val |-> <<>>]
         ELSE [status |-> "ok", none |-> FALSE,
               val |-> [b \in Bins |->
                          IF quantity = "e_ref" THEN energy_center(b)
                          ELSE IF quantity = "e_min" THEN energy_min(b)
                          ELSE energy_max(b)]]
    ELSE IF quantity \in RefColumns
    THEN LET r == IF quantity = "ref_dnde" THEN dnde_ref(self)
                  ELSE IF quantity = "ref_flux" THEN flux_ref(self)
                  ELSE eflux_ref(self)
         IN [status |-> r.status, none |-> FALSE, val |-> r.val]
    ELSE getattr_or_none(self, quantity)

\* FluxPoints.to_table, the block of the likelihood sed type: norm_scan is
\* set before stat is read, an AttributeError ends the block silently
to_table_scan(self, cols) ==
    IF "stat_scan" \notin available_quantities(self) THEN cols
    ELSE LET with_scan == [q \in DOMAIN cols \cup {"norm_scan"} |->
                             IF q = "norm_scan" THEN norm_scan_values ELSE cols[q]]
         IN IF "stat" \notin available_quantities(self) THEN with_scan
            ELSE [q \in DOMAIN with_scan \cup {"stat", "stat_scan"} |->
                    IF q \in {"stat", "stat_scan"} THEN self.data[q]
                    ELSE with_scan[q]]

\* FluxPoints.to_table
to_table(self, sed_type) ==
    IF sed_type \notin DOMAIN REQUIRED_COLUMNS THEN Raise("KeyError")
    ELSE LET quantities == to_table_quantities(sed_type)
             got == [q \in Range(quantities) |-> to_table_column(self, q)]
             failed == {i \in DOMAIN quantities : got[quantities[i]].status # "ok"}
             kept == {q \in Range(quantities) : ~got[q].none}
             cols == [q \in kept |-> got[q].val]
         IN IF failed # {}
            THEN Raise(got[quantities[CHOOSE i \in failed : \A j \in failed : i <= j]].status)
            ELSE Ok([cols |-> IF sed_type = "likelihood"
                              THEN to_table_scan(self, cols) ELSE cols,
                     meta |-> [SED_TYPE |-> sed_type]])

\* 2 * column
Twice(column) == [b \in Bins |-> Mul(Num(2), column[b])]

\* mutant of _convert_loglike_columns: the legacy column is copied as it is
_convert_loglike_columns_copy(cols) ==
    LET legacy == [stat |-> "loglike", stat_null |-> "loglike_null",
                   stat_scan |-> "dloglike_scan"]
        added == {q \in DOMAIN legacy : legacy[q] \in DOMAIN cols /\ q \notin DOMAIN cols}
    IN [q \in DOMAIN cols \cup added |->
          IF q \in added THEN cols[legacy[q]] ELSE cols[q]]

\* FluxPoints._convert_loglike_columns
_convert_loglike_columns(cols) ==
    LET legacy == [stat |-> "loglike", stat_null |-> "loglike_null",
                   stat_scan |-> "dloglike_scan"]
        added == {q \in DOMAIN legacy : legacy[q] \in DOMAIN cols /\ q \notin DOMAIN cols}
    IN [q \in DOMAIN cols \cup added |->
          IF q \in added THEN Twice(cols[legacy[q]]) ELSE cols[q]]

\* MapAxis.from_table(table, format="gadf-sed-energy") finds an energy axis
has_energy_axis(cols) ==
    {"e_min", "e_max"} \subseteq DOMAIN cols \/ "e_ref" \in DOMAIN cols

\* FluxPoints._convert_flux_columns: the table of the reference fluxes, the
\* norm and the norm quantities of the optional columns that are present
_convert_flux_columns(cols, reference_model, sed_type) ==
    LET fluxes == reference_fluxes(reference_model)
        factor == fluxes[ref_key(sed_type)]
        optional == {key \in Range(OPTIONAL_QUANTITIES[sed_type]) : key \in DOMAIN cols}
        source(q) == CHOOSE key \in optional : replace(key, sed_type) = q
    IN [q \in DOMAIN fluxes \cup {"norm"} \cup {replace(key, sed_type) : key \in optional} |->
          IF q \in DOMAIN fluxes THEN fluxes[q]
          ELSE IF q = "norm" THEN [b \in Bins |-> Div(cols[sed_type][b], factor[b])]
          ELSE [b \in Bins |-> Div(cols[source(q)][b], factor[b])]]

\* FluxPoints._guess_sed_type(table)
_guess_sed_type_table(cols) == _guess_sed_type(DOMAIN cols)

\* FluxPoints.from_table, the maps made of the converted table
from_table_maps(cols) ==
    [key \in {k \in Range(VALID_QUANTITIES) : k \in DOMAIN cols} |-> cols[key]]

\* FluxPoints.from_table
from_table(table, sed_type_arg, reference_model) ==
    LET in_meta == IF sed_type_arg # "None" THEN sed_type_arg
                   ELSE IF "SED_TYPE" \in DOMAIN table.meta THEN table.meta["SED_TYPE"]
                   ELSE "None"
        sed_type == IF in_meta # "None" THEN in_meta
                    ELSE _guess_sed_type_table(table.cols)
        valid == _validate_data(DOMAIN table.cols, sed_type, FALSE)
        loglike == _convert_loglike_columns(table.cols)
    IN IF sed_type = "None"
       THEN Failed("ValueError", "Specifying the sed type is required")
       ELSE IF valid.status # "ok" THEN Failed(valid.status, valid.msg)
       ELSE IF sed_type \in {"dnde", "eflux", "e2dnde", "flux"}
       THEN LET model == IF reference_model.kind = "None"
                         THEN PowerLawSpectralModel ELSE reference_model.spectral
                warned == IF reference_model.kind = "None"
                          THEN <<WarnFluxPoints>> ELSE NoWarning
            IN IF ~has_energy_axis(table.cols)
               THEN [status |-> "ValueError", msg |-> "energy columns are required",
                     container |-> NoContainer, log |-> warned]
               ELSE [status |-> "ok", msg |-> "",
                     container |-> FluxPointsInit(
                         from_table_maps(_convert_flux_columns(table.cols, model, sed_type)),
                         model, table.meta),
                     log |-> warned]
       ELSE IF reference_model.kind = "None"
               /\ ~({"e_ref", "ref_dnde"} \subseteq DOMAIN loglike)
       THEN Failed("KeyError", "")
       ELSE IF ~has_energy_axis(loglike)
       THEN Failed("ValueError", "energy columns are required")
       ELSE [status |-> "ok", msg |-> "",
             container |-> FluxPointsInit(
                 from_table_maps(loglike),
                 IF reference_model.kind = "None"
                 THEN TemplateSpectralModel(loglike["ref_dnde"])
                 ELSE reference_model.spectral,
                 table.meta),
             log |-> NoWarning]

\* FluxMaps.to_hdulist: the header of the primary HDU is written before the
\* maps are made
to_hdulist(self, sed_type) ==
    LET r == to_maps(self, sed_type)
    IN IF r.status # "ok" THEN Raise(r.status)
       ELSE Ok([header |-> [SED_TYPE |-> sed_type],
                maps |-> r.val,
                gti |-> self.gti])

\* FluxMaps.get_flux_points with no position: the position is that of the
\* geometry of norm; each stored name is read with getattr, a name that
\* fails ends the call (the first of them in the order of the dict, here
\* one of them); the map at the position is the map of a container that has
\* one position; the meta is a copy
get_flux_points(self) ==
    LET names == available_quantities(self)
        failed == {name \in names : getattr(self, name).status # "ok"}
        culprit == CHOOSE name \in failed : TRUE
    IN IF norm(self).status # "ok" THEN Failed(norm(self).status, "")
       ELSE IF failed # {} THEN Failed(getattr(self, culprit).status, "")
       ELSE [status |-> "ok", msg |-> "",
             container |-> FluxMapsInit([name \in names |-> getattr(self, name).val],
                                        self.reference_model,
                                        [none |-> FALSE, dict |-> self.meta],
                                        self.gti),
             log |-> NoWarning]

(* ----------------------------- the files ------------------------------ *)

\* Path.as_posix() of a path kept as its stem and its suffixes
as_posix(filename) ==
    IF Len(filename.suffixes) = 0 THEN filename.stem
    ELSE IF Len(filename.suffixes) = 1 THEN filename.stem \o filename.suffixes[1]
    ELSE filename.stem \o filename.suffixes[1] \o filename.suffixes[2]

\* FluxMaps.write, the name of the model file when none is given: the
\* results of name_string.replace(suffix, "") are not kept
default_filename_model(filename) == as_posix(filename) \o "_model.yaml"

\* a file that was there before, written by someone else
OldFile == [kind |-> "old", content |-> <<>>]

\* Models(reference_model): the list of the models, empty for None
Models(reference_model) ==
    IF reference_model.kind = "None" THEN <<>> ELSE <<reference_model>>

\* Models.write(path, overwrite): the file is not replaced unless overwrite
Models_write(files, path, models, overwrite) ==
    IF path \in DOMAIN files /\ ~overwrite
    THEN [status |-> "OSError", fs |-> files]
    ELSE [status |-> "ok",
          fs |-> [n \in DOMAIN files \cup {path} |->
                    IF n = path THEN [kind |-> "yaml", content |-> models]
                    ELSE files[n]]]

\* HDUList.writeto(filename, overwrite): the file is not replaced unless
\* overwrite
writeto(files, path, hdulist, overwrite) ==
    IF path \in DOMAIN files /\ ~overwrite
    THEN [status |-> "OSError", fs |-> files]
    ELSE [status |-> "ok",
          fs |-> [n \in DOMAIN files \cup {path} |->
                    IF n = path THEN [kind |-> "fits", content |-> hdulist]
                    ELSE files[n]]]

\* FluxMaps.write, with the result of self.to_hdulist(sed_type): the model
\* file is written, the name of the model file is put in the header, the
\* hdulist is written
write(self, files, filename, filename_model, overwrite, hdulist) ==
    LET path_model == IF filename_model = "None"
                      THEN default_filename_model(filename) ELSE filename_model
        written == Models_write(files, path_model, Models(self.reference_model),
                                overwrite)
    IN IF hdulist.status # "ok" THEN [status |-> hdulist.status, fs |-> files]
       ELSE IF written.status # "ok" THEN written
       ELSE writeto(written.fs, as_posix(filename),
                    [hdulist.val EXCEPT
                       !.header = [SED_TYPE |-> @.SED_TYPE, MODEL |-> path_model]],
                    overwrite)

\* Models.read(filename)[0]
Models_read_first(files, path) ==
    IF path \notin DOMAIN files THEN Raise("FileNotFoundError")
    ELSE IF files[path].kind # "yaml" THEN Raise("YAMLError")
    ELSE IF Len(files[path].content) = 0 THEN Raise("IndexError")
    ELSE Ok(files[path].content[1])

\* mutant of from_hdulist: a meta with a threshold is handed to from_maps
from_hdulist_meta(files, hdulist, sed_type_arg) ==
    LET sed_type == IF sed_type_arg # "None" THEN sed_type_arg
                    ELSE IF "SED_TYPE" \in DOMAIN hdulist.header
                    THEN hdulist.header["SED_TYPE"] ELSE "None"
        linked == "MODEL" \in DOMAIN hdulist.header
        model == IF linked THEN Models_read_first(files, hdulist.header["MODEL"])
                 ELSE Ok(NoModel)
    IN IF model.status # "ok" THEN Failed(model.status, "")
       ELSE from_maps(hdulist.maps, sed_type, model.val, hdulist.gti,
                      [none |-> FALSE, dict |-> [ts_threshold_ul |-> 9]])

\* mutant of from_hdulist: the header is not read for the sed type
from_hdulist_no_header(files, hdulist, sed_type_arg) ==
    LET linked == "MODEL" \in DOMAIN hdulist.header
        model == IF linked THEN Models_read_first(files, hdulist.header["MODEL"])
                 ELSE Ok(NoModel)
    IN IF model.status # "ok" THEN Failed(model.status, "")
       ELSE from_maps(hdulist.maps, sed_type_arg, model.val, hdulist.gti,
                      [none |-> TRUE, dict |-> EmptyDict])

\* FluxMaps.from_hdulist: the sed type of the header unless one is given,
\* the model of the file the header names, the GTI if there is one
from_hdulist(files, hdulist, sed_type_arg) ==
    LET sed_type == IF sed_type_arg # "None" THEN sed_type_arg
                    ELSE IF "SED_TYPE" \in DOMAIN hdulist.header
                    THEN hdulist.header["SED_TYPE"] ELSE "None"
        linked == "MODEL" \in DOMAIN hdulist.header
        model == IF linked THEN Models_read_first(files, hdulist.header["MODEL"])
                 ELSE Ok(NoModel)
    IN IF model.status # "ok" THEN Failed(model.status, "")
       ELSE from_maps(hdulist.maps, sed_type, model.val, hdulist.gti,
                      [none |-> TRUE, dict |-> EmptyDict])

\* FluxMaps.read: fits.open(filename), then from_hdulist
read(files, path) ==
    IF path \notin DOMAIN files THEN Failed("FileNotFoundError", "")
    ELSE IF files[path].kind # "fits" THEN Failed("OSError", "")
    ELSE from_hdulist(files, files[path].content, "None")

(* --------------------------- the estimator ---------------------------- *)

\* mutant of bin_of: the bins are taken from the last edge down
bin_of_from_end(energy_edges, i) ==
    <<energy_edges[Len(energy_edges) - i], energy_edges[Len(energy_edges) - i + 1]>>

\* FluxPointsEstimator.run: the i-th pair of
\* zip(self.energy_edges[:-1], self.energy_edges[1:])
bin_of(energy_edges, i) == <<energy_edges[i], energy_edges[i + 1]>>

\* the number of pairs of zip(energy_edges[:-1], energy_edges[1:])
n_bins(energy_edges) == Len(energy_edges) - 1

\* FluxPointsEstimator.estimate_flux_point: the counts of the bin, updated
\* with the result of the fit on the sliced datasets
estimate_flux_point(bin, counts, fit) ==
    [e_min |-> Num(bin[1]), e_max |-> Num(bin[2]), counts |-> counts, norm |-> fit.norm]

\* table_from_row_data(rows, meta): one column per key, one entry per row
table_from_row_data(rows, meta) ==
    [cols |-> [k \in {"e_min", "e_max", "counts", "norm"} |->
                 [i \in 1..Len(rows) |-> rows[i][k]]],
     meta |-> meta]

\* mutant of run_failed: a failed bin gives a row with a NaN norm and the
\* loop goes on
run_failed_nan_row(run, bin) ==
    [run EXCEPT !.rows = Append(@, estimate_flux_point(bin, Num(0), [norm |-> NaN])),
                !.calls = Append(@, bin)]

\* FluxPointsEstimator.run when estimate_flux_point raises: nothing catches
\* the exception, the loop and the rows are given up
run_failed(run, bin) ==
    [run EXCEPT !.pc = "raised", !.calls = Append(@, bin)]

\* FluxPointsEstimator.run: datasets = Datasets(datasets).copy() binds the
\* name to a new collection with new models
run_datasets == [datasets |-> "run.datasets", models |-> "run.models"]

\* Datasets(datasets).copy() on the objects there are: the new collection
\* and its models, equal to the caller's
Datasets_copy(objects) ==
    [o \in DOMAIN objects \cup {run_datasets.datasets, run_datasets.models} |->
        IF o = run_datasets.datasets THEN [models |-> run_datasets.models]
        ELSE IF o = run_datasets.models THEN objects["models"]
        ELSE objects[o]]

\* mutant of estimate_flux_point_models: the models of the datasets of run
\* are given to the sliced datasets as they are
estimate_flux_point_models_shared == run_datasets.models

\* estimate_flux_point: datasets_sliced.models = datasets.models.copy(), a
\* new object
estimate_flux_point_models == "sliced.models"

\* estimate_flux_point up to the fit: the sliced datasets and their models
slice_by_energy(objects) ==
    [o \in DOMAIN objects \cup {"sliced.datasets", estimate_flux_point_models} |->
        IF o = "sliced.datasets" THEN [models |-> estimate_flux_point_models]
        ELSE IF o = estimate_flux_point_models THEN objects[run_datasets.models]
        ELSE objects[o]]

\* super().run(datasets=datasets_sliced): the fit sets the norm of the
\* models of the sliced datasets
fit_run(objects, fit) ==
    [objects EXCEPT ![objects["sliced.datasets"].models] =
                        [@ EXCEPT !.values = <<fit.norm>>]]

\* run: model = datasets.models[self.source], and the reference model of
\* the flux points is model.spectral_model.copy(), a new object
run_reference_model(objects) ==
    [object |-> "model.spectral_model.copy()",
     value |-> objects[objects[run_datasets.datasets].models]]

(* ------------------------------ inputs -------------------------------- *)

\* the values the arrays of the inputs are drawn from
Palette == <<NaN, Num(3), Num(2), Num(5), Num(-1), Num(0), Inf, Num(1), Num(4)>>

ArrayOf(k) == [b \in Bins |-> Palette[((k + b - 1) % Len(Palette)) + 1]]

\* the place of a name (by its role in its family) in the value tables
RoleOrder ==
    <<"ul", "err", "ts", "errp", "npred_null", "stat", "stat_null", "val",
      "npred", "errn", "counts", "niter", "sqrt_ts", "npred_excess",
      "stat_scan", "is_ul", "loglike", "loglike_null", "dloglike_scan">>

RoleOf(name) ==
    IF \E f \in DOMAIN FamilyNames, s \in Suffixes : FamilyNames[f][s] = name
    THEN CHOOSE s \in Suffixes : \E f \in DOMAIN FamilyNames : FamilyNames[f][s] = name
    ELSE name

\* the array a caller gives under a name: flags for is_ul, values otherwise
InputArray(name, seed) ==
    IF name = "is_ul" THEN [b \in Bins |-> (b + seed) % 2 = 0]
    ELSE ArrayOf(seed + (CHOOSE i \in DOMAIN RoleOrder : RoleOrder[i] = RoleOf(name)) - 1)

Seeds == 0..MaxSeed

\* names that belong to no family
OtherNames == Range(VALID_QUANTITIES) \ Range(FamilyNames["norm"])

\* the key sets of a caller's mapping for one family: its main quantity,
\* or not, and at most MaxExtra of its siblings and of the other names
KeySets(family) ==
    {main \cup extra :
        main \in SUBSET {FamilyNames[family]["val"]},
        extra \in {e \in SUBSET ((Range(FamilyNames[family]) \ {FamilyNames[family]["val"]})
                                   \cup OtherNames) : Cardinality(e) <= MaxExtra}}

\* the column names of the older table format
LegacyNames == {"loglike", "loglike_null", "dloglike_scan"}

\* the sed type a family of names belongs to
SedTypeOf(family) == IF family = "norm" THEN "likelihood" ELSE family

\* the data columns of a caller's table for one family
ColumnSets(family) ==
    {main \cup extra :
        main \in SUBSET {FamilyNames[family]["val"]},
        extra \in {e \in SUBSET ((Range(FamilyNames[family]) \ {FamilyNames[family]["val"]})
                                   \cup OtherNames \cup LegacyNames) :
                      Cardinality(e) <= MaxExtra}}

\* the energy and reference columns of a caller's table: none or all
GridSets == {{}, EnergyColumns \cup RefColumns}

\* the array of a column of a caller's table
InputColumn(name, seed) ==
    IF name \in EnergyColumns \cup RefColumns THEN reference_fluxes(PWL3)[name]
    ELSE IF name = "loglike" THEN [b \in Bins |-> Num(10 + seed + b - 1)]
    ELSE InputArray(name, seed)

\* the meta of a caller's table for one family: empty, or its sed type
MetaInputs(family) == {EmptyDict, [SED_TYPE |-> SedTypeOf(family)]}

SedInputs == Range(SedTypeOrder) \cup {"None", "unknown"}

RefInputs == {NoModel, SpectralModel(PWL3), SkyModel(TPL)}

\* meta and gti as a caller gives them: both left out, or both given
KwInputs ==
    {[meta |-> [none |-> TRUE, dict |-> EmptyDict], gti |-> "None"],
     [meta |-> [none |-> FALSE, dict |-> [ts_threshold_ul |-> 9]], gti |-> "gti"]}

\* the names a caller asks the container for
ItemInputs == PropertyNames \cup OtherAttributes \cup {"undefined"}

\* the keys of the small mappings
PlainKeySets == {{"norm"}, {"norm", "norm_err"}, {"norm_err"}}

\* the paths a caller writes to
PathInputs ==
    {[stem |-> "maps", suffixes |-> <<".fits">>],
     [stem |-> "maps", suffixes |-> <<>>]}

\* the paths of the model file a caller gives, "None" for none
ModelPathInputs == {"None", "model.yaml"}

\* the sed types a caller writes with
WriteSedInputs == {"likelihood", "dnde"}

\* the names of the files there can be
FileNames ==
    {as_posix(p) : p \in PathInputs}
        \cup {default_filename_model(p) : p \in PathInputs}
        \cup {f \in ModelPathInputs : f # "None"}
        \cup {p.stem \o "_model.yaml" : p \in PathInputs}

\* the main quantity of each sed type
MainNames == {"dnde", "e2dnde", "flux", "eflux", "norm"}

\* the energy and reference columns of an input that mixes sed types
PartialGridSets ==
    {{}, {"e_ref"}, {"e_min", "e_max"}, EnergyColumns, EnergyColumns \cup RefColumns}

\* the meta of a table that mixes sed types: empty, or a sed type
MixedMetaInputs == {EmptyDict, [SED_TYPE |-> "flux"]}

\* the energies the edges of a run are taken from
EdgePool == {1, 3, 10, 30, 100}

\* the energy edges of a run: at least two, increasing
EdgeInputs ==
    {e \in UNION {[1..n -> EdgePool] : n \in 2..MaxEdges} :
        \A i \in 1..(Len(e) - 1) : e[i] < e[i + 1]}

\* what the fit of a bin gives
FitInputs == {[norm |-> Num(1)], [norm |-> NaN]}

\* what the count of a bin gives
CountInputs == {Num(0), Num(7)}

(* ------------------------------ stacking ------------------------------ *)

\* how many flux points objects a caller stacks
MaxStack == 2

\* how many energies a flux points object to stack has
MaxNodes == 2

\* astropy units of energy, by their size in TeV
units == [TeV |-> Q(1, 1), GeV |-> Q(1, 1000)]

\* Quantity.to(unit): the value of the same quantity in the other unit
to(value, unit_from, unit) == Mul(value, Div(units[unit_from], units[unit]))

\* FluxPoints.to_table(sed_type="dnde") of a flux points object that stores
\* norm, and norm_err if has_err: one row per energy, e_ref in the unit of
\* the energy axis
to_table_dnde(fp) ==
    LET colnames == {"e_ref", "dnde"} \cup (IF fp.has_err THEN {"dnde_err"} ELSE {})
    IN [colnames |-> colnames,
        unit |-> fp.unit,
        rows |-> [i \in DOMAIN fp.energy_ref |->
                    [c \in colnames |->
                       IF c = "e_ref" THEN to(Num(fp.energy_ref[i]), "TeV", fp.unit)
                       ELSE IF c = "dnde" THEN fp.dnde[i]
                       ELSE Num(1)]],
        meta |-> [SED_TYPE |-> "dnde"]]

\* vstack(tables): the rows of the tables, one table after the other
RECURSIVE vstack(_)
vstack(tables) ==
    IF tables = <<>> THEN <<>> ELSE Head(tables) \o vstack(Tail(tables))

\* mutant of Table.sort: the rows stay as they are
sort_not(rows, key) == rows

\* Table.sort(key): the rows in ascending order of the key, rows of equal
\* keys in the order they had
RECURSIVE sort(_, _)
sort(rows, key) ==
    IF rows = <<>> THEN <<>>
    ELSE LET first == CHOOSE i \in DOMAIN rows :
                        /\ \A j \in DOMAIN rows : ~Lt(rows[j][key], rows[i][key])
                        /\ \A j \in 1..(i - 1) : Lt(rows[i][key], rows[j][key])
             others == [j \in 1..(Len(rows) - 1) |->
                          IF j < first THEN rows[j] ELSE rows[j + 1]]
         IN <<rows[first]>> \o sort(others, key)

\* FluxPoints.from_stack: the tables of the flux points, each with the
\* columns of the first and in the units of the first, stacked and sorted
\* by e_ref, and handed to from_table with the sed type dnde (no reference
\* model is given, from_table warns and assumes the default)
from_stack(flux_points) ==
    LET reference == to_table_dnde(flux_points[1])
        tables == [i \in DOMAIN flux_points |-> to_table_dnde(flux_points[i])]
        missing == {i \in DOMAIN flux_points :
                      ~(reference.colnames \subseteq tables[i].colnames)}
        converted == [i \in DOMAIN flux_points |->
                        [r \in DOMAIN tables[i].rows |->
                           [c \in reference.colnames |->
                              IF c = "e_ref"
                              THEN to(tables[i].rows[r][c], tables[i].unit, reference.unit)
                              ELSE tables[i].rows[r][c]]]]
        valid == _validate_data(reference.colnames, "dnde", FALSE)
    IN IF flux_points = <<>>
       THEN [status |-> "IndexError", table |-> <<>>, log |-> NoWarning]
       ELSE IF missing # {}
       THEN [status |-> "KeyError", table |-> <<>>, log |-> NoWarning]
       ELSE IF valid.status # "ok"
       THEN [status |-> valid.status, table |-> <<>>, log |-> NoWarning]
       ELSE [status |-> "ok",
             table |-> [colnames |-> reference.colnames,
                        unit |-> reference.unit,
                        rows |-> sort(vstack(converted), "e_ref"),
                        meta |-> [SED_TYPE |-> "dnde"]],
             log |-> <<WarnFluxPoints>>]

\* the energies of the flux points to stack, in TeV
NodePool == {2, 8, 32}

\* the flux points objects a caller stacks: increasing energies, an energy
\* axis in TeV or in GeV, with or without errors
StackInputs ==
    {fp \in [unit : DOMAIN units,
             energy_ref : UNION {[1..n -> NodePool] : n \in 1..MaxNodes},
             dnde : UNION {[1..n -> {Num(5)}] : n \in 1..MaxNodes},
             has_err : BOOLEAN] :
        /\ Len(fp.dnde) = Len(fp.energy_ref)
        /\ \A i \in 1..(Len(fp.energy_ref) - 1) : fp.energy_ref[i] < fp.energy_ref[i + 1]}

(* ------------------------------- state -------------------------------- *)

VARIABLES
    maps,   \* the mapping or the table in the caller's hands
    fm,     \* the container
    fm2,    \* a container made from the first one
    out,    \* the outcome of the last call, until the caller takes it
    log,    \* the warnings logged
    est,    \* the run of the flux points estimator
    fs      \* the files, by name

vars == <<maps, fm, fm2, out, log, est, fs>>

\* no run of the estimator
NoRun == [pc |-> "idle", energy_edges |-> <<>>, rows |-> <<>>, calls |-> <<>>]

NoMapping == [exists |-> FALSE, kind |-> "none", dict |-> EmptyDict, meta |-> EmptyDict]

NoOut == [op |-> "none", arg |-> "", status |-> "ok", msg |-> "", val |-> <<>>]

Init ==
    /\ maps = NoMapping
    /\ fm = NoContainer
    /\ fm2 = NoContainer
    /\ out = NoOut
    /\ log = <<>>
    /\ est = NoRun
    /\ fs = EmptyDict

\* the caller builds a mapping of quantity names to maps
NewMapping(families) ==
    /\ ~maps.exists /\ ~fm.exists
    /\ \E family \in families, seed \in Seeds :
         \E keys \in KeySets(family) :
            maps' = [exists |-> TRUE, kind |-> "dict",
                     dict |-> [q \in keys |-> InputArray(q, seed)],
                     meta |-> EmptyDict]
    /\ out' = NoOut
    /\ UNCHANGED <<est, fs, fm, fm2, log>>

NewNormMapping == NewMapping({"norm"})

\* the caller builds a mapping with norm of either sign, zero or NaN, and
\* with ts, sqrt_ts, both or neither
NewSignedMapping ==
    /\ ~maps.exists /\ ~fm.exists
    /\ \E norm_data \in [Bins -> {Num(-1), Num(0), NaN, Num(1)}],
          ts_data \in [Bins -> {Num(4), Num(-1)}],
          keys \in SUBSET {"ts", "sqrt_ts"} :
         maps' = [exists |-> TRUE, kind |-> "dict",
                  dict |-> [q \in {"norm"} \cup keys |->
                              IF q = "norm" THEN norm_data
                              ELSE IF q = "ts" THEN ts_data
                              ELSE InputArray(q, 0)],
                  meta |-> EmptyDict]
    /\ out' = NoOut
    /\ UNCHANGED <<est, fs, fm, fm2, log>>

\* the caller builds one of a few small mappings
NewPlainMapping ==
    /\ ~maps.exists /\ ~fm.exists
    /\ \E keys \in PlainKeySets, seed \in Seeds :
         maps' = [exists |-> TRUE, kind |-> "dict",
                  dict |-> [q \in keys |-> InputArray(q, seed)],
                  meta |-> EmptyDict]
    /\ out' = NoOut
    /\ UNCHANGED <<est, fs, fm, fm2, log>>

NewAnyMapping == NewMapping(DOMAIN FamilyNames)

\* the caller builds a table of columns
NewTable ==
    /\ ~maps.exists /\ ~fm.exists
    /\ \E family \in DOMAIN FamilyNames, seed \in Seeds :
         \E keys \in ColumnSets(family), grid \in GridSets, meta \in MetaInputs(family) :
            maps' = [exists |-> TRUE, kind |-> "table",
                     dict |-> [q \in keys \cup grid |-> InputColumn(q, seed)],
                     meta |-> meta]
    /\ out' = NoOut
    /\ UNCHANGED <<est, fs, fm, fm2, log>>

\* the caller builds a mapping or a table with the main quantities of any
\* of the sed types and some of the energy and reference columns
NewMixed(kind) ==
    /\ ~maps.exists /\ ~fm.exists
    /\ \E keys \in SUBSET MainNames, grid \in PartialGridSets, seed \in Seeds :
         \E meta \in IF kind = "table" THEN MixedMetaInputs ELSE {EmptyDict} :
            maps' = [exists |-> TRUE, kind |-> kind,
                     dict |-> [q \in keys \cup grid |-> InputColumn(q, seed)],
                     meta |-> meta]
    /\ out' = NoOut
    /\ UNCHANGED <<est, fs, fm, fm2, log>>

NewMixedMapping == NewMixed("dict")

NewMixedTable == NewMixed("table")

\* FluxMaps(data, reference_model, meta, gti)
Construct ==
    /\ maps.kind = "dict" /\ ~fm.exists /\ out = NoOut
    /\ \E reference_model \in RefInputs, kw \in KwInputs :
         fm' = FluxMapsInit(maps.dict, reference_model, kw.meta, kw.gti)
    /\ out' = [NoOut EXCEPT !.op = "init"]
    /\ UNCHANGED <<est, fs, maps, fm2, log>>

\* FluxMaps.from_maps(maps, sed_type, reference_model, gti, meta)
FromMaps ==
    /\ maps.kind = "dict" /\ ~fm.exists /\ out = NoOut
    /\ Len(log) < MaxLog
    /\ \E sed_type \in SedInputs, reference_model \in RefInputs, kw \in KwInputs :
         \E r \in {from_maps(maps.dict, sed_type, reference_model, kw.gti, kw.meta)} :
            /\ fm' = r.container
            /\ log' = log \o r.log
            /\ out' = [op |-> "from_maps", arg |-> sed_type, status |-> r.status,
                       msg |-> r.msg, val |-> reference_model]
    /\ UNCHANGED <<est, fs, maps, fm2>>

\* FluxMaps._validate_data(data, sed_type, check_scan)
ValidateData ==
    /\ maps.kind = "dict" /\ ~fm.exists /\ out = NoOut
    /\ \E sed_type \in SedInputs \ {"None"}, check_scan \in BOOLEAN :
         \E r \in {_validate_data(DOMAIN maps.dict, sed_type, check_scan)} :
            out' = [op |-> "_validate_data", arg |-> sed_type, status |-> r.status,
                    msg |-> r.msg,
                    val |-> [missing |-> r.missing, check_scan |-> check_scan]]
    /\ UNCHANGED <<est, fs, maps, fm, fm2, log>>

\* FluxMaps.all_quantities(sed_type)
AllQuantities ==
    /\ maps.kind = "dict" /\ ~fm.exists /\ out = NoOut
    /\ \E sed_type \in SedInputs \ {"None"} :
         out' = [op |-> "all_quantities", arg |-> sed_type,
                 status |-> all_quantities(sed_type).status, msg |-> "",
                 val |-> all_quantities(sed_type).val]
    /\ UNCHANGED <<est, fs, maps, fm, fm2, log>>

\* the read of a property of the container
Read ==
    /\ fm.exists /\ out = NoOut
    /\ \E name \in PropertyNames :
         \E r \in {getattr(fm, name)} :
            /\ out' = [op |-> "getattr", arg |-> name, status |-> r.status,
                       msg |-> "", val |-> r.val]
            /\ fm' = getattr_after(fm, name)
    /\ UNCHANGED <<est, fs, maps, fm2, log>>

\* container[item]
GetItem ==
    /\ fm.exists /\ out = NoOut
    /\ \E item \in ItemInputs :
         \E r \in {__getitem__(fm, item)} :
            out' = [op |-> "getitem", arg |-> item, status |-> r.status,
                    msg |-> "", val |-> r.val]
    /\ UNCHANGED <<est, fs, maps, fm, fm2, log>>

\* FluxMaps.to_maps(sed_type)
ToMaps ==
    /\ fm.exists /\ out = NoOut
    /\ \E sed_type \in SedInputs \ {"None"} :
         \E r \in {to_maps(fm, sed_type)} :
            /\ out' = [op |-> "to_maps", arg |-> sed_type, status |-> r.status,
                       msg |-> "", val |-> r.val]
            /\ fm' = assigned(fm, to_maps_assigned, r.val)
    /\ UNCHANGED <<est, fs, maps, fm2, log>>

\* FluxMaps.to_hdulist(sed_type)
ToHdulist ==
    /\ fm.exists /\ maps.kind = "dict" /\ out = NoOut
    /\ \E sed_type \in SedInputs \ {"None"} :
         \E r \in {to_hdulist(fm, sed_type)} :
            /\ out' = [op |-> "to_hdulist", arg |-> sed_type, status |-> r.status,
                       msg |-> "", val |-> r.val]
            /\ fm' = assigned(fm, to_hdulist_assigned, [SED_TYPE |-> sed_type])
    /\ UNCHANGED <<est, fs, maps, fm2, log>>

\* FluxPoints.from_table(table, sed_type, reference_model)
FromTable ==
    /\ maps.kind = "table" /\ ~fm.exists /\ out = NoOut
    /\ Len(log) < MaxLog
    /\ \E sed_type \in SedInputs, reference_model \in RefInputs \ {SkyModel(TPL)} :
         \E r \in {from_table([cols |-> maps.dict, meta |-> maps.meta],
                             sed_type, reference_model)} :
            /\ fm' = r.container
            /\ log' = log \o r.log
            /\ out' = [op |-> "from_table", arg |-> sed_type, status |-> r.status,
                       msg |-> r.msg, val |-> reference_model]
    /\ UNCHANGED <<est, fs, maps, fm2>>

\* FluxPoints.to_table(sed_type)
ToTable ==
    /\ fm.exists /\ maps.kind = "table" /\ out = NoOut
    /\ \E sed_type \in SedInputs \ {"None"} :
         \E r \in {to_table(fm, sed_type)} :
            /\ out' = [op |-> "to_table", arg |-> sed_type, status |-> r.status,
                       msg |-> "", val |-> r.val]
            /\ fm' = assigned(fm, to_table_assigned, [SED_TYPE |-> sed_type])
    /\ UNCHANGED <<est, fs, maps, fm2, log>>

\* FluxMaps.get_flux_points()
GetFluxPoints ==
    /\ fm.exists /\ maps.kind = "dict" /\ out = NoOut
    /\ \E r \in {get_flux_points(fm)} :
         /\ fm2' = r.container
         /\ out' = [op |-> "get_flux_points", arg |-> "", status |-> r.status,
                    msg |-> "", val |-> <<>>]
         /\ fm' = assigned(fm, get_flux_points_assigned, r.container.data)
    /\ UNCHANGED <<est, fs, maps, log>>

\* FluxMaps.from_maps(maps, sed_type, reference_model) on the maps that
\* to_maps(sed_type) returned, with the reference model of the container
FromMapsBack ==
    /\ fm.exists
    /\ out.op = "to_maps" /\ out.status = "ok"
    /\ \E r \in {from_maps(out.val, out.arg, fm.reference_model, "None",
                          [none |-> TRUE, dict |-> EmptyDict])} :
          /\ fm2' = r.container
          /\ log' = log \o r.log
          /\ out' = [op |-> "from_maps_back", arg |-> out.arg, status |-> r.status,
                     msg |-> r.msg, val |-> <<>>]
    /\ UNCHANGED <<est, fs, maps, fm>>

\* FluxPoints.from_table(table, sed_type, reference_model) on the table
\* that to_table(sed_type) returned, with the spectral model of the container
FromTableBack ==
    /\ fm.exists /\ maps.kind = "table"
    /\ out.op = "to_table" /\ out.status = "ok"
    /\ Len(log) < MaxLog
    /\ \E r \in {from_table(out.val, out.arg, SpectralModel(fm.reference_model.spectral))} :
          /\ fm2' = r.container
          /\ log' = log \o r.log
          /\ out' = [op |-> "from_table_back", arg |-> out.arg, status |-> r.status,
                     msg |-> r.msg, val |-> <<>>]
    /\ UNCHANGED <<est, fs, maps, fm>>

\* FluxPointsEstimator.run(datasets), up to the loop
RunStart ==
    /\ est = NoRun /\ ~maps.exists /\ ~fm.exists /\ out = NoOut
    /\ \E energy_edges \in EdgeInputs :
         est' = [pc |-> "loop", energy_edges |-> energy_edges, rows |-> <<>>,
                 calls |-> <<>>]
    /\ UNCHANGED <<maps, fm, fm2, out, log, fs>>

\* one pass of the loop of run: estimate_flux_point returns a row
EstimateFluxPoint ==
    /\ est.pc = "loop" /\ Len(est.rows) < n_bins(est.energy_edges)
    /\ \E counts \in CountInputs, fit \in FitInputs :
         LET bin == bin_of(est.energy_edges, Len(est.rows) + 1)
         IN est' = [est EXCEPT !.rows = Append(@, estimate_flux_point(bin, counts, fit)),
                               !.calls = Append(@, bin)]
    /\ UNCHANGED <<maps, fm, fm2, out, log, fs>>

\* one pass of the loop of run: estimate_flux_point raises
EstimateFluxPointFails ==
    /\ est.pc = "loop" /\ Len(est.rows) < n_bins(est.energy_edges)
    /\ est' = run_failed(est, bin_of(est.energy_edges, Len(est.rows) + 1))
    /\ out' = [NoOut EXCEPT !.op = "run", !.status = "Exception"]
    /\ UNCHANGED <<maps, fm, fm2, log, fs>>

\* the end of run: the table of the rows, and FluxPoints.from_table
RunReturn ==
    /\ est.pc = "loop" /\ Len(est.rows) = n_bins(est.energy_edges)
    /\ LET table == table_from_row_data(est.rows, [SED_TYPE |-> "likelihood"])
           r == from_table(table, "None", SpectralModel(PWL3))
       IN /\ fm' = r.container
          /\ log' = log \o r.log
          /\ out' = [op |-> "run", arg |-> "", status |-> r.status, msg |-> r.msg,
                     val |-> <<>>]
    /\ est' = [est EXCEPT !.pc = "done"]
    /\ UNCHANGED <<maps, fm2, fs>>

\* files that are there before the caller writes
Touch ==
    /\ ~maps.exists /\ ~fm.exists /\ fs = EmptyDict
    /\ \E names \in SUBSET FileNames :
         /\ names # {}
         /\ Cardinality(names) <= MaxFiles
         /\ fs' = [n \in names |-> OldFile]
    /\ UNCHANGED <<maps, fm, fm2, out, log, est>>

\* FluxMaps.write(filename, filename_model, overwrite, sed_type), once
Write ==
    /\ fm.exists /\ out = NoOut
    /\ \A n \in DOMAIN fs : fs[n] = OldFile
    /\ \E filename \in PathInputs, filename_model \in ModelPathInputs,
          overwrite \in BOOLEAN, sed_type \in WriteSedInputs :
         \E hdulist \in {to_hdulist(fm, sed_type)} :
            \E r \in {write(fm, fs, filename, filename_model, overwrite, hdulist)} :
               /\ fs' = r.fs
               /\ out' = [op |-> "write", arg |-> sed_type, status |-> r.status,
                          msg |-> "",
                          val |-> [filename |-> filename,
                                   filename_model |-> filename_model,
                                   overwrite |-> overwrite]]
    /\ UNCHANGED <<maps, fm, fm2, log, est>>

\* FluxMaps.read(filename)
ReadFile ==
    /\ fm.exists /\ out = NoOut
    /\ Len(log) < MaxLog
    /\ \E filename \in PathInputs :
         \E r \in {read(fs, as_posix(filename))} :
            /\ fm2' = r.container
            /\ log' = log \o r.log
            /\ out' = [op |-> "read", arg |-> as_posix(filename),
                       status |-> r.status, msg |-> r.msg, val |-> <<>>]
    /\ UNCHANGED <<maps, fm, est, fs>>

\* FluxMaps.from_hdulist(hdulist, sed_type) on the list of HDUs that
\* to_hdulist returned
FromHdulistBack ==
    /\ fm.exists
    /\ out.op = "to_hdulist" /\ out.status = "ok"
    /\ Len(log) < MaxLog
    /\ \E sed_type \in SedInputs :
         \E r \in {from_hdulist(fs, out.val, sed_type)} :
            /\ fm2' = r.container
            /\ log' = log \o r.log
            /\ out' = [op |-> "from_hdulist", arg |-> sed_type,
                       status |-> r.status, msg |-> r.msg, val |-> out.val]
    /\ UNCHANGED <<maps, fm, est, fs>>

\* the caller takes the outcome of the call, and is free to call again
Take ==
    /\ out # NoOut
    /\ out' = NoOut
    /\ fm2' = NoContainer
    /\ UNCHANGED <<est, fs, maps, fm, log>>

\* the caller lets go of everything, and the files are removed
Drop ==
    /\ maps.exists \/ est.pc \in {"raised", "done"}
    /\ maps' = NoMapping
    /\ fm' = NoContainer
    /\ fm2' = NoContainer
    /\ out' = NoOut
    /\ log' = <<>>
    /\ est' = NoRun
    /\ fs' = EmptyDict

\* a dict after d[key] = value
setitem(d, key, value) ==
    [k \in DOMAIN d \cup {key} |-> IF k = key THEN value ELSE d[k]]

\* a dict after del d[key]
delitem(d, key) == [k \in DOMAIN d \ {key} |-> d[k]]

\* what the caller sees of a container
seen(self) ==
    [available_quantities |-> available_quantities(self),
     data |-> self.data,
     ts_threshold_ul |-> ts_threshold_ul(self)]

\* the caller, with the container in hand, adds, replaces or removes an
\* entry of the mapping it gave to the constructor or to from_maps
ChangeMapping ==
    /\ fm.exists /\ out.op \in {"init", "from_maps"} /\ out.status = "ok"
    /\ \E key \in {"norm", "counts"}, del \in BOOLEAN :
         /\ del => key \in DOMAIN maps.dict
         /\ \E value \in {IF del THEN delitem(maps.dict, key)
                          ELSE setitem(maps.dict, key, ArrayOf(0))} :
              /\ maps' = [maps EXCEPT !.dict = value]
              /\ fm' = changed(fm,
                               IF out.op = "init" THEN __init___held
                               ELSE from_maps_held(IF out.arg = "None"
                                                   THEN _guess_sed_type(DOMAIN maps.dict)
                                                   ELSE out.arg),
                               "data", value)
    /\ out' = [op |-> "change", arg |-> "data", status |-> "ok", msg |-> "",
               val |-> seen(fm)]
    /\ UNCHANGED <<fm2, log, est, fs>>

\* the caller, with the container in hand, sets or removes an entry of the
\* meta dict it gave to the constructor or to from_maps (a caller that gave
\* none has no dict to change)
ChangeMeta ==
    /\ fm.exists /\ out.op \in {"init", "from_maps"} /\ out.status = "ok"
    /\ fm.meta # EmptyDict
    /\ \E value \in {delitem(fm.meta, "ts_threshold_ul"),
                     setitem(fm.meta, "ts_threshold_ul", 16)} :
         fm' = changed(fm,
                       IF out.op = "init" THEN __init___held
                       ELSE from_maps_held(IF out.arg = "None"
                                           THEN _guess_sed_type(DOMAIN maps.dict)
                                           ELSE out.arg),
                       "meta", value)
    /\ out' = [op |-> "change", arg |-> "meta", status |-> "ok", msg |-> "",
               val |-> seen(fm)]
    /\ UNCHANGED <<maps, fm2, log, est, fs>>

\* the caller has a collection of datasets with the models of a source
NewDatasets ==
    /\ ~maps.exists /\ ~fm.exists /\ est = NoRun /\ out = NoOut
    /\ \E model \in {PWL2, PWL3} :
         maps' = [exists |-> TRUE, kind |-> "datasets",
                  dict |-> [o \in {"datasets", "models"} |->
                              IF o = "datasets" THEN [models |-> "models"] ELSE model],
                  meta |-> EmptyDict]
    /\ UNCHANGED <<fm, fm2, out, log, est, fs>>

\* FluxPointsEstimator.run(datasets) up to the loop
RunDatasets ==
    /\ maps.kind = "datasets" /\ est = NoRun /\ ~fm.exists /\ out = NoOut
    /\ \E energy_edges \in EdgeInputs :
         est' = [pc |-> "loop", energy_edges |-> energy_edges, rows |-> <<>>,
                 calls |-> <<>>]
    /\ maps' = [maps EXCEPT !.dict = Datasets_copy(@)]
    /\ UNCHANGED <<fm, fm2, out, log, fs>>

\* one pass of the loop of run on the datasets: the slice, the copy of the
\* models, the counts and the fit
FitFluxPoint ==
    /\ maps.kind = "datasets"
    /\ est.pc = "loop" /\ Len(est.rows) < n_bins(est.energy_edges)
    /\ \E counts \in CountInputs, fit \in FitInputs :
         \E bin \in {bin_of(est.energy_edges, Len(est.rows) + 1)} :
            /\ est' = [est EXCEPT !.rows = Append(@, estimate_flux_point(bin, counts, fit)),
                                  !.calls = Append(@, bin)]
            /\ maps' = [maps EXCEPT !.dict = fit_run(slice_by_energy(@), fit)]
    /\ UNCHANGED <<fm, fm2, out, log, fs>>

\* one pass of the loop of run on the datasets, the fit raising: the models
\* of the sliced datasets are as the fit left them
FitFluxPointFails ==
    /\ maps.kind = "datasets"
    /\ est.pc = "loop" /\ Len(est.rows) < n_bins(est.energy_edges)
    /\ est' = run_failed(est, bin_of(est.energy_edges, Len(est.rows) + 1))
    /\ \E objects \in {slice_by_energy(maps.dict),
                       fit_run(slice_by_energy(maps.dict), [norm |-> NaN])} :
         maps' = [maps EXCEPT !.dict = objects]
    /\ out' = [NoOut EXCEPT !.op = "run", !.status = "Exception"]
    /\ UNCHANGED <<fm, fm2, log, fs>>

\* the end of run on the datasets: the table of the rows, and
\* FluxPoints.from_table with a copy of the spectral model of the source
RunDatasetsReturn ==
    /\ maps.kind = "datasets"
    /\ est.pc = "loop" /\ Len(est.rows) = n_bins(est.energy_edges)
    /\ \E model \in {run_reference_model(maps.dict)} :
         \E r \in {from_table(table_from_row_data(est.rows, [SED_TYPE |-> "likelihood"]),
                              "None", SpectralModel(model.value))} :
            /\ fm' = r.container
            /\ log' = log \o r.log
            /\ out' = [op |-> "run", arg |-> "", status |-> r.status, msg |-> r.msg,
                       val |-> [reference_model |-> model.object]]
    /\ est' = [est EXCEPT !.pc = "done"]
    /\ UNCHANGED <<maps, fm2, fs>>

\* the caller makes a list of flux points objects
NewList ==
    /\ ~maps.exists /\ ~fm.exists /\ est = NoRun /\ out = NoOut
    /\ \E flux_points \in UNION {[1..n -> StackInputs] : n \in 0..MaxStack} :
         maps' = [exists |-> TRUE, kind |-> "list", dict |-> flux_points,
                  meta |-> EmptyDict]
    /\ UNCHANGED <<fm, fm2, out, log, est, fs>>

\* FluxPoints.from_stack(flux_points)
FromStack ==
    /\ maps.kind = "list" /\ out = NoOut /\ Len(log) < MaxLog
    /\ \E r \in {from_stack(maps.dict)} :
         /\ out' = [op |-> "from_stack", arg |-> "", status |-> r.status,
                    msg |-> "", val |-> [table |-> r.table]]
         /\ log' = log \o r.log
    /\ UNCHANGED <<maps, fm, fm2, est, fs>>

\* construction and reading
Next ==
    \/ NewNormMapping
    \/ Construct
    \/ Read
    \/ Take
    \/ Drop

Spec == Init /\ [][Next]_vars

\* conversion between sed types
NextMaps ==
    \/ NewAnyMapping
    \/ ValidateData
    \/ AllQuantities
    \/ FromMaps
    \/ ToMaps
    \/ ToHdulist
    \/ FromMapsBack
    \/ Take
    \/ Drop

SpecMaps == Init /\ [][NextMaps]_vars

\* tables
NextTable ==
    \/ NewTable
    \/ FromTable
    \/ ToTable
    \/ FromTableBack
    \/ Take
    \/ Drop

SpecTable == Init /\ [][NextTable]_vars

\* the creation of a container from maps and from a table
NextCreate ==
    \/ NewAnyMapping
    \/ NewTable
    \/ FromMaps
    \/ FromTable
    \/ Take
    \/ Drop

SpecCreate == Init /\ [][NextCreate]_vars

\* the creation of a container when the sed type has to be found
NextGuess ==
    \/ NewMixedMapping
    \/ NewMixedTable
    \/ FromMaps
    \/ FromTable
    \/ Take
    \/ Drop

SpecGuess == Init /\ [][NextGuess]_vars

\* the flux points estimator
NextRun ==
    \/ RunStart
    \/ EstimateFluxPoint
    \/ EstimateFluxPointFails
    \/ RunReturn
    \/ Drop

SpecRun == Init /\ [][NextRun]_vars

\* the container asked for a name
NextItem ==
    \/ NewNormMapping
    \/ Construct
    \/ GetItem
    \/ Take
    \/ Drop

SpecItem == Init /\ [][NextItem]_vars

\* the operations that read a container
NextFrame ==
    \/ NewNormMapping
    \/ Construct
    \/ NewMixedTable
    \/ FromTable
    \/ Read
    \/ ToMaps
    \/ ToHdulist
    \/ ToTable
    \/ GetFluxPoints
    \/ Take
    \/ Drop

SpecFrame == Init /\ [][NextFrame]_vars

\* the files: writing and reading back
NextFile ==
    \/ Touch
    \/ NewPlainMapping
    \/ Construct
    \/ Write
    \/ ReadFile
    \/ Take
    \/ Drop

SpecFile == Init /\ [][NextFile]_vars

\* the list of HDUs: made by a container, and made into a container
NextHdu ==
    \/ NewNormMapping
    \/ Construct
    \/ ToHdulist
    \/ FromHdulistBack
    \/ Take
    \/ Drop

SpecHdu == Init /\ [][NextHdu]_vars

\* reads of a container whose norm has either sign
NextSigned ==
    \/ NewSignedMapping
    \/ Construct
    \/ Read
    \/ Take
    \/ Drop

SpecSigned == Init /\ [][NextSigned]_vars

\* the caller changes what it gave to a container
NextOwn ==
    \/ NewAnyMapping
    \/ Construct
    \/ FromMaps
    \/ ChangeMapping
    \/ ChangeMeta
    \/ Take
    \/ Drop

SpecOwn == Init /\ [][NextOwn]_vars

\* a container is written, and read with from_hdulist
NextRound ==
    \/ NewNormMapping
    \/ Construct
    \/ Write
    \/ ReadFile
    \/ Take
    \/ Drop

SpecRound == Init /\ [][NextRound]_vars

\* the run of the estimator on the caller's datasets
NextFit ==
    \/ NewDatasets
    \/ RunDatasets
    \/ FitFluxPoint
    \/ FitFluxPointFails
    \/ RunDatasetsReturn
    \/ Take
    \/ Drop

SpecFit == Init /\ [][NextFit]_vars

\* stacking flux points objects
NextStack ==
    \/ NewList
    \/ FromStack
    \/ Take
    \/ Drop

SpecStack == Init /\ [][NextStack]_vars

(* ------------------------------ claims -------------------------------- *)

\* C1: a read of is_ul that returns gives, per bin: ts < ts_threshold_ul
\* when both ts and norm_ul are stored; otherwise norm_ul is finite when
\* norm_ul is stored; otherwise norm is NaN.  With norm_ul alone, a NaN
\* bin is no upper limit and a bin of 3.0 is one.
C1_IsUlPrecedence ==
    (out.op = "getattr" /\ out.arg = "is_ul" /\ out.status = "ok") =>
        \A b \in Bins :
            /\ out.val[b] =
                 IF "ts" \in DOMAIN fm.data /\ "norm_ul" \in DOMAIN fm.data
                 THEN Lt(fm.data["ts"][b], Num(ts_threshold_ul(fm)))
                 ELSE IF "norm_ul" \in DOMAIN fm.data
                 THEN fm.data["norm_ul"][b][2] # 0
                 ELSE fm.data["norm"][b] = NaN
            /\ ("ts" \notin DOMAIN fm.data /\ "norm_ul" \in DOMAIN fm.data) =>
                 /\ fm.data["norm_ul"][b] = NaN => out.val[b] = FALSE
                 /\ fm.data["norm_ul"][b] = Num(3) => out.val[b] = TRUE

\* C1 witness: is_ul was read with norm_ul = [NaN, 3] stored and no ts
C1_Witness ==
    /\ out.op = "getattr" /\ out.arg = "is_ul" /\ out.status = "ok"
    /\ "ts" \notin DOMAIN fm.data /\ "norm_ul" \in DOMAIN fm.data
    /\ fm.data["norm_ul"] = <<NaN, Num(3)>>
    /\ out.val = <<FALSE, TRUE>>

\* C2 as stated: with ts stored and no ts_threshold_ul in meta, a read of
\* is_ul gives ts < 4 in every bin
C2_Original ==
    (/\ out.op = "getattr" /\ out.arg = "is_ul" /\ out.status = "ok"
     /\ "ts" \in DOMAIN fm.data
     /\ "ts_threshold_ul" \notin DOMAIN fm.meta) =>
        \A b \in Bins : out.val[b] = Lt(fm.data["ts"][b], Num(4))

\* C2 amended: with ts and norm_ul both stored and no ts_threshold_ul in
\* meta, a read of is_ul gives ts < 4 in every bin (2 gives True, 5 False)
C2_Amended ==
    (/\ out.op = "getattr" /\ out.arg = "is_ul" /\ out.status = "ok"
     /\ "ts" \in DOMAIN fm.data /\ "norm_ul" \in DOMAIN fm.data
     /\ "ts_threshold_ul" \notin DOMAIN fm.meta) =>
        \A b \in Bins :
            /\ out.val[b] = Lt(fm.data["ts"][b], Num(4))
            /\ fm.data["ts"][b] = Num(2) => out.val[b] = TRUE
            /\ fm.data["ts"][b] = Num(5) => out.val[b] = FALSE

\* C2 witness: is_ul was read with ts = [2, 5] and norm_ul stored and the
\* default threshold
C2_Witness ==
    /\ out.op = "getattr" /\ out.arg = "is_ul" /\ out.status = "ok"
    /\ "ts" \in DOMAIN fm.data /\ "norm_ul" \in DOMAIN fm.data
    /\ "ts_threshold_ul" \notin DOMAIN fm.meta
    /\ fm.data["ts"] = <<Num(2), Num(5)>>
    /\ out.val = <<TRUE, FALSE>>

\* C3 as stated: when an is_ul quantity is stored, a read of is_ul gives
\* the stored flags
C3_StoredIsUl ==
    (/\ out.op = "getattr" /\ out.arg = "is_ul" /\ out.status = "ok"
     /\ "is_ul" \in DOMAIN fm.data) =>
        out.val = fm.data["is_ul"]

\* C4: a read of one of the twelve checked quantities gives the stored
\* value when it is stored and fails with AttributeError when it is not;
\* npred_excess gives npred - npred_null and fails with AttributeError
\* when either is not stored
C4_CheckedAccess ==
    (out.op = "getattr") =>
        /\ out.arg \in {"niter", "counts", "npred", "npred_null", "stat", "stat_null",
                        "stat_scan", "ts", "norm_err", "norm_errn", "norm_errp",
                        "norm_ul"} =>
              IF out.arg \in DOMAIN fm.data
              THEN out.status = "ok" /\ out.val = fm.data[out.arg]
              ELSE out.status = "AttributeError"
        /\ out.arg = "npred_excess" =>
              IF "npred" \in DOMAIN fm.data /\ "npred_null" \in DOMAIN fm.data
              THEN /\ out.status = "ok"
                   /\ \A b \in Bins :
                        out.val[b] = Sub(fm.data["npred"][b], fm.data["npred_null"][b])
              ELSE out.status = "AttributeError"

\* C4 witness: npred was read on a container that does not store it
C4_Witness ==
    /\ out.op = "getattr" /\ out.arg = "npred"
    /\ fm.exists /\ "npred" \notin DOMAIN fm.data
    /\ out.status = "AttributeError"

\* C5 as stated: every container has norm among its quantities
C5_NormAlways == fm.exists => "norm" \in DOMAIN fm.data

\* C6: _validate_data fails with "Unknown SED type" for a sed type that is
\* none of the five, whatever the mapping; otherwise it fails with
\* "Missing data / column" exactly when a required name is not a key, and
\* then names exactly the required names that are missing; and it leaves
\* the mapping as it was
C6_Validate ==
    [][(out.op = "none" /\ out'.op = "_validate_data") =>
        /\ maps' = maps
        /\ LET keys == DOMAIN maps.dict
               sed == out'.arg
               required ==
                   (IF sed = "likelihood" THEN {"norm"} ELSE {sed})
                       \cup (IF out'.val.check_scan THEN {"stat_scan", "stat"} ELSE {})
           IN IF sed \notin {"dnde", "e2dnde", "flux", "eflux", "likelihood"}
              THEN out'.status = "ValueError" /\ out'.msg = "Unknown SED type"
              ELSE IF required \ keys # {}
              THEN /\ out'.status = "ValueError"
                   /\ out'.msg = "Missing data / column"
                   /\ out'.val.missing = required \ keys
              ELSE out'.status = "ok"]_vars

\* C6 witness: validation for dnde failed on a mapping without dnde
C6_Witness ==
    /\ out.op = "_validate_data" /\ out.arg = "dnde"
    /\ out.status = "ValueError" /\ out.val.missing = {"dnde"}
    /\ "dnde" \notin DOMAIN maps.dict

\* C7 (as stated): every operation that takes a requested sed type fails
\* with the one unknown-sed-type error (ValueError "Unknown SED type") when
\* the requested type is not one of the five, and produces nothing.  The
\* code does not: all_quantities, to_maps and to_hdulist raise a KeyError.
C7_SameError ==
    (out.arg = "unknown"
       /\ out.op \in {"from_maps", "to_maps", "to_hdulist", "all_quantities"})
    => /\ out.status = "ValueError"
       /\ out.msg = "Unknown SED type"

\* the quantities C8 lists besides norm
C8_Listed ==
    {"norm_err", "norm_errn", "norm_errp", "norm_ul", "ts", "stat", "stat_null",
     "stat_scan", "npred", "npred_null", "counts", "niter"}

\* the round trip of C8 is made: c stores norm, has a reference model, and
\* the factors of the sed type are non-zero
C8_Case ==
    /\ out.op = "from_maps_back"
    /\ fm.reference_model.kind # "None"
    /\ out.arg # "likelihood" =>
         \A b \in Bins :
            reference_fluxes(fm.reference_model.spectral)[ref_key(out.arg)][b][1] # 0

\* the quantities of names that the round trip gives back as c stores them
C8_Kept(names) ==
    /\ out.status = "ok"
    /\ fm2.exists
    /\ fm2.data["norm"] = fm.data["norm"]
    /\ \A q \in names :
          q \in DOMAIN fm.data => q \in DOMAIN fm2.data /\ fm2.data[q] = fm.data[q]

\* C8 (as stated): from_maps(c.to_maps(t), sed_type=t,
\* reference_model=c.reference_model) stores norm equal to c.norm and every
\* listed optional quantity that c stores, stat_scan included, for every t
C8_Original == C8_Case => C8_Kept(C8_Listed)

\* C8 (amended): the round trip gives back norm and every listed optional
\* quantity that c stores except stat_scan, which comes back only when t is
\* likelihood
C8_RoundTrip ==
    C8_Case =>
       C8_Kept(IF out.arg = "likelihood" THEN C8_Listed ELSE C8_Listed \ {"stat_scan"})

\* C8: a round trip through flux of a container that stores norm_ul, ts and
\* more, with a power law of index 3 as its reference
C8_Witness ==
    /\ C8_Case
    /\ out.arg = "flux"
    /\ out.status = "ok"
    /\ {"norm_ul", "ts"} \subseteq DOMAIN fm.data
    /\ fm.reference_model = SkyModel(PWL3)
    /\ fm2.data["norm_ul"] = fm.data["norm_ul"]

\* C9: from_maps and from_table called with a non-likelihood sed type whose
\* data the input holds, and with no reference model, do not fail: the call
\* logs exactly one warning and the container it returns has a point source
\* with a power law of index 2 as its reference model
C9_DefaultModel ==
    [][(/\ out.op = "none"
        /\ out'.op \in {"from_maps", "from_table"}
        /\ out'.val = NoModel
        /\ out'.arg \in FluxFamilies
        /\ out'.arg \in DOMAIN maps.dict
        /\ maps.kind = "table" => has_energy_axis(maps.dict))
       => /\ out'.status = "ok"
          /\ fm'.exists
          /\ fm'.reference_model = SkyModel(PWL2)
          /\ \E w \in {WarnFluxMaps, WarnFluxPoints} : log' = Append(log, w)]_vars

\* C9: from_table(table, sed_type="eflux") without a reference model has
\* returned a container and logged its one warning
C9_Witness ==
    /\ out.op = "from_table"
    /\ out.val = NoModel
    /\ out.arg = "eflux"
    /\ out.status = "ok"
    /\ fm.reference_model = SkyModel(PWL2)
    /\ log = <<WarnFluxPoints>>

\* C10 (as stated): a FluxMaps created with reference_model None has the
\* default model, a point source with a power law of index 2, and its dnde,
\* flux, eflux and e2dnde are usable.  The code does not: the constructor
\* keeps None, and the accessors fail with AttributeError.
C10_DefaultAssumed ==
    /\ fm.exists => fm.reference_model.kind = "SkyModel"
    /\ (out.op = "getattr" /\ out.arg \in {"dnde", "flux", "eflux", "e2dnde"}
          /\ "norm" \in DOMAIN fm.data)
       => out.status = "ok"

\* the names a sed type requires for it to be found, C11
C11_Required(sed_type) ==
    IF sed_type = "dnde" THEN {"e_ref", "dnde"}
    ELSE IF sed_type = "e2dnde" THEN {"e_ref", "e2dnde"}
    ELSE IF sed_type = "flux" THEN {"e_min", "e_max", "flux"}
    ELSE IF sed_type = "eflux" THEN {"e_min", "e_max", "eflux"}
    ELSE {"e_min", "e_max", "e_ref", "ref_dnde", "ref_flux", "ref_eflux", "norm"}

\* the sed type a call without sed type has to take, C11: that of the
\* table's meta, else the first in the order dnde, e2dnde, flux, eflux,
\* likelihood whose required names are all present, else none
C11_Determined ==
    LET order == <<"dnde", "e2dnde", "flux", "eflux", "likelihood">>
        fits == {i \in 1..5 : C11_Required(order[i]) \subseteq DOMAIN maps.dict}
    IN IF maps.kind = "table" /\ "SED_TYPE" \in DOMAIN maps.meta
       THEN maps.meta["SED_TYPE"]
       ELSE IF fits = {} THEN "None"
       ELSE order[CHOOSE i \in fits : \A j \in fits : i <= j]

C12_LegacyOf ==
    [stat |-> "loglike", stat_null |-> "loglike_null", stat_scan |-> "dloglike_scan"]

\* from_table has built a container, C12
C12_Built == out.op = "from_table" /\ out.status = "ok"

\* the sed type from_table has built the container with, C12
C12_SedType == IF out.arg = "None" THEN C11_Determined ELSE out.arg

\* the container stores what C12 says of the table: the canonical column
\* unchanged when the table has it, else 2 times the legacy column when
\* the table has that (10 gives 20), and no legacy name
C12_Stored ==
    /\ \A q \in DOMAIN C12_LegacyOf :
          IF q \in DOMAIN maps.dict
          THEN q \in DOMAIN fm.data /\ fm.data[q] = maps.dict[q]
          ELSE IF C12_LegacyOf[q] \in DOMAIN maps.dict
          THEN /\ q \in DOMAIN fm.data
               /\ \A b \in Bins :
                     /\ fm.data[q][b] = Mul(Num(2), maps.dict[C12_LegacyOf[q]][b])
                     /\ maps.dict[C12_LegacyOf[q]][b] = Num(10) => fm.data[q][b] = Num(20)
          ELSE q \notin DOMAIN fm.data
    /\ \A q \in DOMAIN C12_LegacyOf : C12_LegacyOf[q] \notin DOMAIN fm.data

\* C12 (as stated): every container built by from_table stores the
\* canonical quantity as 2 times the legacy column when the table lacks
\* the canonical column, and the canonical column unchanged when it has it
C12_Original == C12_Built => C12_Stored

\* C12 (amended): a container built by from_table with the sed type
\* likelihood stores the canonical quantity as 2 times the legacy column
\* when the table lacks the canonical column, and the canonical column
\* unchanged, the legacy column ignored, when it has it
C12_Legacy == (C12_Built /\ C12_SedType = "likelihood") => C12_Stored

\* C12: from_table has built a likelihood container from a table with
\* loglike = 10 in a bin and no stat, and it stores stat = 20 there
C12_Witness ==
    /\ C12_Built /\ C12_SedType = "likelihood"
    /\ "loglike" \in DOMAIN maps.dict /\ "stat" \notin DOMAIN maps.dict
    /\ maps.dict["loglike"][1] = Num(10)
    /\ fm.data["stat"][1] = Num(20)

\* the quantities C13 lists besides norm
C13_Listed ==
    {"norm_err", "norm_errn", "norm_errp", "norm_ul", "ts", "stat", "stat_null",
     "npred", "npred_null", "counts", "niter"}

\* C13 (as stated): from_table(c.to_table(sed_type=t), sed_type=t,
\* reference_model=c's spectral model) gives a container that stores norm
\* and every listed quantity that c stores, with the values of c.  The
\* code does not: for dnde, e2dnde, flux and eflux the common quantities
\* (ts, stat, ...) of the table are left out of the container.
C13_TableRoundTrip ==
    out.op = "from_table_back" =>
       /\ out.status = "ok"
       /\ fm2.exists
       /\ fm2.data["norm"] = fm.data["norm"]
       /\ \A q \in C13_Listed :
             q \in DOMAIN fm.data => q \in DOMAIN fm2.data /\ fm2.data[q] = fm.data[q]

\* C14: a run over N + 1 energy edges that returns has estimated each of
\* the N bins (edges[i], edges[i+1]) once, in the order of the edges, and
\* returns a container of N rows, row i being that of bin i; the edges
\* 1, 3, 10 give the 2 rows of (1, 3) and (3, 10)
C14_RowsInOrder ==
    est.pc = "done" =>
       LET e == est.energy_edges
           N == Len(e) - 1
       IN /\ Len(est.calls) = N /\ Len(est.rows) = N
          /\ \A i \in 1..N :
                /\ est.calls[i] = <<e[i], e[i + 1]>>
                /\ est.rows[i].e_min = Num(e[i]) /\ est.rows[i].e_max = Num(e[i + 1])
          /\ out.status = "ok" /\ fm.exists
          /\ Len(fm.data["norm"]) = N /\ Len(fm.data["counts"]) = N
          /\ \A i \in 1..N :
                /\ fm.data["norm"][i] = est.rows[i].norm
                /\ fm.data["counts"][i] = est.rows[i].counts
          /\ e = <<1, 3, 10>> => est.calls = <<(<<1, 3>>), (<<3, 10>>)>>

\* C14: a run over the edges 1, 3, 10 has returned
C14_Witness ==
    /\ est.pc = "done" /\ est.energy_edges = <<1, 3, 10>>
    /\ Len(fm.data["norm"]) = 2

\* C15: when the estimate of a bin fails the run ends with that failure:
\* no row is recorded for the bin, no container is returned, and no bin is
\* estimated afterwards
C15_FailurePropagates ==
    /\ [][(est.pc = "loop" /\ out'.op = "run" /\ out'.status # "ok")
          => /\ est'.pc = "raised"
             /\ est'.rows = est.rows
             /\ ~fm'.exists]_vars
    /\ [][est.pc = "raised"
          => /\ ~fm'.exists
             /\ est' = est \/ est' = NoRun]_vars

\* C15: the estimate of the second of three bins has failed
C15_Witness ==
    /\ est.pc = "raised" /\ Len(est.energy_edges) = 4
    /\ Len(est.calls) = 2 /\ Len(est.rows) = 1
    /\ ~fm.exists /\ out.status = "Exception"

\* C16: a write with overwrite false to a target that exists, by a
\* container that can be exported, fails with the error of a file that
\* exists and leaves every file as it was: no file is made or replaced
C16_NoPartialWrite ==
    [][(/\ out.op = "none"
        /\ out'.op = "write"
        /\ ~out'.val.overwrite
        /\ as_posix(out'.val.filename) \in DOMAIN fs
        /\ to_hdulist(fm, out'.arg).status = "ok")
       => (out'.status = "OSError" /\ fs' = fs)]_vars

\* C17: after a write that was given no name for the model file, the model
\* file is at the name of the primary file without its suffixes followed by
\* "_model.yaml" ("maps.fits" gives "maps_model.yaml"), and the MODEL key of
\* the primary header holds that name
C17_DefaultModelPath ==
    (out.op = "write" /\ out.status = "ok" /\ out.val.filename_model = "None") =>
        LET expected == out.val.filename.stem \o "_model.yaml"
        IN /\ expected \in DOMAIN fs
           /\ fs[expected].kind = "yaml"
           /\ fs[as_posix(out.val.filename)].content.header.MODEL = expected

\* the norm that a list of HDUs holds when it is read as sed type t with no
\* model file linked: the norm itself, or the flux over the reference flux
\* of the power law of index 2
C18_Norm(hdulist, t) ==
    IF t = "likelihood" THEN hdulist.maps["norm"]
    ELSE [b \in Bins |->
            Div(hdulist.maps[t][b], reference_fluxes(PWL2)[ref_key(t)][b])]

\* the quantity that maps of sed type t have to hold
C18_Main(t) == IF t = "likelihood" THEN "norm" ELSE t

\* C18: to_hdulist(sed_type=t) writes t under SED_TYPE in the primary
\* header; from_hdulist on that list reads it as the sed type of the header
\* when no sed type is given and as the given sed type otherwise: with none
\* given, or t given, and the quantity of t among the maps (as it is when
\* the container stores norm and has a reference model), it returns a
\* container made from the maps as type t, for each of the five sed types;
\* otherwise it fails in the validation of the sed type it reads the maps as
C18_HeaderSedType ==
    /\ (out.op = "to_hdulist" /\ out.status = "ok") =>
          out.val.header.SED_TYPE = out.arg
    /\ (out.op = "to_hdulist" /\ out.status = "ok" /\ "norm" \in DOMAIN fm.data
          /\ fm.reference_model.kind # "None") =>
          C18_Main(out.arg) \in DOMAIN out.val.maps
    /\ out.op = "from_hdulist" =>
          LET t == IF out.arg = "None" THEN out.val.header.SED_TYPE ELSE out.arg
          IN IF t = out.val.header.SED_TYPE /\ C18_Main(t) \in DOMAIN out.val.maps
             THEN /\ out.status = "ok"
                  /\ fm2.exists
                  /\ fm2.data["norm"] = C18_Norm(out.val, t)
             ELSE out.status = "ValueError"

\* C18: a list of HDUs made with sed type eflux was read with no sed type
\* given, and a container came back
C18_Witness ==
    /\ out.op = "from_hdulist"
    /\ out.arg = "None"
    /\ out.val.header.SED_TYPE = "eflux"
    /\ out.status = "ok"
    /\ fm2.exists
    /\ "norm_err" \in DOMAIN fm2.data

\* the operations of C19 that read a container
C19_Reads == {"getattr", "to_maps", "to_table", "to_hdulist", "get_flux_points"}

\* C19: a read of a property (the flux accessors, is_ul, sqrt_ts,
\* npred_excess and the others), to_maps, to_table, to_hdulist and
\* get_flux_points, whether it returns or fails, leaves the container as it
\* was: the names it stores, their values, its meta, its gti and its
\* reference model
C19_ReadsLeaveContainer ==
    [][(out.op = "none" /\ out'.op \in C19_Reads) => fm' = fm]_vars

\* C19: is_ul was read and returned, on a container that stores norm, and
\* the norm is the one the container was made with
C19_Witness ==
    /\ out.op = "getattr"
    /\ out.arg = "is_ul"
    /\ out.status = "ok"
    /\ maps.kind = "dict"
    /\ "norm_ul" \in DOMAIN fm.data
    /\ fm.data["norm"] = maps.dict["norm"]
    /\ fm.gti = "gti"

\* C20: container[name] for a name among available_quantities returns, and
\* returns the stored quantity of that name; for a name that is neither
\* stored nor the name of a quantity that can be derived it fails with
\* AttributeError, the error of a quantity that is not defined
C20_GetItem ==
    out.op = "getitem" =>
        /\ out.arg \in available_quantities(fm) =>
              (out.status = "ok" /\ out.val = fm.data[out.arg])
        /\ (out.arg \notin available_quantities(fm) /\ out.arg \notin PropertyNames) =>
              out.status = "AttributeError"

\* C21: get_flux_points on a container that stores norm returns, and the
\* container it returns stores the names the source stores, each with the
\* values the source stores under that name, and has the reference model,
\* the gti and a meta equal to those of the source
C21_GetFluxPoints ==
    (out.op = "get_flux_points" /\ "norm" \in available_quantities(fm)) =>
        /\ out.status = "ok"
        /\ fm2.exists
        /\ available_quantities(fm2) = available_quantities(fm)
        /\ \A q \in available_quantities(fm) : fm2.data[q] = fm.data[q]
        /\ fm2.reference_model = fm.reference_model
        /\ fm2.gti = fm.gti
        /\ fm2.meta = fm.meta

\* the number of rows of the flux points of a list, together
RECURSIVE C22_Rows(_)
C22_Rows(flux_points) ==
    IF flux_points = <<>> THEN 0
    ELSE Len(Head(flux_points).energy_ref) + C22_Rows(Tail(flux_points))

\* the list in the opposite order
C22_Reversed(flux_points) ==
    [i \in DOMAIN flux_points |-> flux_points[Len(flux_points) + 1 - i]]

\* the energies of the rows of a table, in TeV
C22_Energies(table) ==
    [r \in DOMAIN table.rows |-> to(table.rows[r]["e_ref"], table.unit, "TeV")]

\* the table has the rows of the list, sorted ascending by e_ref, and the
\* list in the opposite order gives the same energies
C22_Sorted(flux_points, table) ==
    /\ Len(table.rows) = C22_Rows(flux_points)
    /\ \A r \in 1..(Len(table.rows) - 1) :
         ~Lt(table.rows[r + 1]["e_ref"], table.rows[r]["e_ref"])
    /\ \A i \in DOMAIN flux_points : \A e \in Range(flux_points[i].energy_ref) :
         Cardinality({r \in DOMAIN table.rows : C22_Energies(table)[r] = Num(e)})
             = Cardinality({<<j, k>> \in (DOMAIN flux_points) \X (1..MaxNodes) :
                               /\ k \in DOMAIN flux_points[j].energy_ref
                               /\ flux_points[j].energy_ref[k] = e})
    /\ from_stack(C22_Reversed(flux_points)).status = "ok" =>
         C22_Energies(from_stack(C22_Reversed(flux_points)).table) = C22_Energies(table)

C23_FluxAccessors ==
    (out.op = "getattr" /\ out.arg \in FluxNames /\ fm.reference_model.kind # "None") =>
        LET fam == CHOOSE f \in FluxFamilies : \E s \in Suffixes : FamilyNames[f][s] = out.arg
            suf == CHOOSE s \in Suffixes : FamilyNames[fam][s] = out.arg
            stored == FamilyNames["norm"][suf]
        IN IF stored \in available_quantities(fm)
           THEN /\ out.status = "ok"
                /\ out.val = [b \in Bins |->
                                Mul(fm.data[stored][b], family_ref(fm, fam).val[b])]
           ELSE out.status = "AttributeError"

\* the sed type of a call of from_maps: the one given, or the one guessed
C24_SedType == IF out.arg = "None" THEN _guess_sed_type(DOMAIN maps.dict) ELSE out.arg

\* C24: a container returned by from_maps with a sed type t other than
\* likelihood stores norm = maps[t] / factor, where factor is the reference
\* factor of t of the container; for each suffix it stores norm+s exactly
\* when the input has t+s, equal to t+s / factor; it stores each common
\* quantity exactly when the input has it, unchanged; and it stores nothing
\* else, no quantity of a flux family
C24_FromMapsNorm ==
    (out.op = "from_maps" /\ out.status = "ok" /\ C24_SedType \in FluxFamilies) =>
        LET t == C24_SedType
            factor == family_ref(fm, t).val
        IN /\ \A s \in Suffixes :
                /\ FamilyNames["norm"][s] \in DOMAIN fm.data
                     <=> (s = "val" \/ FamilyNames[t][s] \in DOMAIN maps.dict)
                /\ FamilyNames["norm"][s] \in DOMAIN fm.data =>
                     fm.data[FamilyNames["norm"][s]]
                         = [b \in Bins |-> Div(maps.dict[FamilyNames[t][s]][b], factor[b])]
           /\ \A q \in Range(OPTIONAL_QUANTITIES_COMMON) :
                /\ q \in DOMAIN fm.data <=> q \in DOMAIN maps.dict
                /\ q \in DOMAIN fm.data => fm.data[q] = maps.dict[q]
           /\ DOMAIN fm.data \subseteq
                Range(FamilyNames["norm"]) \cup Range(OPTIONAL_QUANTITIES_COMMON)
           /\ DOMAIN fm.data \cap FluxNames = {}

\* C24: from_maps has made a container of eflux maps with an upper limit,
\* without errors and with ts: it stores norm, norm_ul and ts
C24_Witness ==
    /\ out.op = "from_maps" /\ out.status = "ok" /\ C24_SedType = "eflux"
    /\ {"eflux", "eflux_ul", "ts"} \subseteq DOMAIN maps.dict
    /\ "eflux_err" \notin DOMAIN maps.dict
    /\ DOMAIN fm.data = {"norm", "norm_ul", "ts"}
    /\ fm.data["norm_ul"] # maps.dict["eflux_ul"]

\* a common quantity is derivable: sqrt_ts from ts, npred_excess from npred
\* and npred_null
C25_Derivable(self, q) ==
    \/ q = "sqrt_ts" /\ "ts" \in available_quantities(self)
    \/ q = "npred_excess" /\ {"npred", "npred_null"} \subseteq available_quantities(self)

\* C25: to_maps(t) on a container that stores norm and has a reference
\* model returns a mapping with keys among all_quantities(t), with the
\* required quantity of t, with the sibling t+s exactly when norm+s is
\* stored, and with a common quantity exactly when it is stored or derivable
C25_ToMapsKeys ==
    (/\ out.op = "to_maps"
     /\ out.arg \in DOMAIN REQUIRED_MAPS
     /\ "norm" \in available_quantities(fm)
     /\ fm.reference_model.kind # "None") =>
        LET t == out.arg
            family == IF t = "likelihood" THEN "norm" ELSE t
        IN /\ out.status = "ok"
           /\ DOMAIN out.val \subseteq Range(all_quantities(t).val)
           /\ Range(REQUIRED_MAPS[t]) \subseteq DOMAIN out.val
           /\ \A s \in Suffixes \ {"val"} :
                FamilyNames[family][s] \in DOMAIN out.val
                    <=> FamilyNames["norm"][s] \in available_quantities(fm)
           /\ \A q \in Range(OPTIONAL_QUANTITIES_COMMON) :
                q \in DOMAIN out.val
                    <=> (q \in available_quantities(fm) \/ C25_Derivable(fm, q))
           /\ DOMAIN out.val \cap (FluxNames \ Range(FamilyNames[family])) = {}

\* C26: reading sqrt_ts on a container that stores norm gives the stored
\* sqrt_ts when there is one; otherwise, from a stored ts, -sqrt(ts) in the
\* bins where norm < 0 and +sqrt(ts) in all the other bins (NaN where ts is
\* negative); and fails with the quantity-not-defined error when neither
\* sqrt_ts nor ts is stored
C26_SqrtTs ==
    (out.op = "getattr" /\ out.arg = "sqrt_ts" /\ "norm" \in available_quantities(fm)) =>
        IF "sqrt_ts" \in available_quantities(fm)
        THEN out.status = "ok" /\ out.val = fm.data["sqrt_ts"]
        ELSE IF "ts" \in available_quantities(fm)
        THEN /\ out.status = "ok"
             /\ \A b \in Bins :
                  out.val[b] = IF Lt(fm.data["norm"][b], Num(0))
                               THEN Minus(Sqrt(fm.data["ts"][b]))
                               ELSE Sqrt(fm.data["ts"][b])
        ELSE out.status = "AttributeError"

\* C27: after the caller has added, replaced or removed an entry of the
\* mapping or of the meta dict that it gave to the constructor or to
\* from_maps, the container has the available quantities, the stored values
\* and the ts_threshold_ul it had before
C27_Owned ==
    out.op = "change" => seen(fm) = out.val

\* C28: a container returned by read, that is by from_hdulist on the HDUs
\* of the file, has an empty meta, whatever the meta of the container that
\* was written: its n_sigma is 1,
\* its n_sigma_ul and sed_type_init are None, its ts_threshold_ul is 4, and
\* its is_ul is the one of the threshold 4
C28_EmptyMeta ==
    (out.op = "read" /\ out.status = "ok") =>
        /\ fm2.exists
        /\ fm2.meta = EmptyDict
        /\ n_sigma(fm2) = 1
        /\ n_sigma_ul(fm2).none
        /\ sed_type_init(fm2).none
        /\ ts_threshold_ul(fm2) = 4
        /\ is_ul(fm2) = is_ul([fm2 EXCEPT !.meta = [ts_threshold_ul |-> 4]])

\* C28: a container with the threshold 9 in its meta was written and read:
\* the container read has the threshold 4, and flags a bin as an upper
\* limit that the container written does not
C28_Witness ==
    /\ out.op = "read" /\ out.status = "ok"
    /\ ts_threshold_ul(fm) = 9
    /\ ts_threshold_ul(fm2) = 4
    /\ {"norm_ul", "ts"} \subseteq DOMAIN fm2.data
    /\ fm2.data["ts"] = fm.data["ts"]
    /\ is_ul(fm2) # is_ul(fm)

\* C29: a table returned by to_table('likelihood') has the column
\* norm_scan exactly when it has the column stat_scan, and has both exactly
\* when the container stores stat_scan and stat; a table of another sed type
\* has neither
C29_ScanColumns ==
    (out.op = "to_table" /\ out.status = "ok") =>
        LET cols == DOMAIN out.val.cols
        IN IF out.arg = "likelihood"
           THEN /\ "norm_scan" \in cols <=> "stat_scan" \in cols
                /\ "stat_scan" \in cols
                     <=> {"stat_scan", "stat"} \subseteq available_quantities(fm)
           ELSE cols \cap {"norm_scan", "stat_scan"} = {}

\* C30: no step of a run changes the caller's collection of datasets or the
\* models assigned to it, whether the run returns or a fit fails; and the
\* reference model of the container that run returns is equal to the
\* spectral model of the caller's source and is an object of its own
C30_CallerUntouched ==
    [][/\ (maps.kind = "datasets" /\ maps'.kind = "datasets") =>
            /\ maps'.dict["datasets"] = maps.dict["datasets"]
            /\ maps'.dict["models"] = maps.dict["models"]
       /\ (maps.kind = "datasets" /\ est.pc = "loop" /\ est'.pc = "done") =>
            /\ out'.op = "run" /\ out'.status = "ok"
            /\ fm'.reference_model = SkyModel(maps.dict["models"])
            /\ out'.val.reference_model \notin DOMAIN maps'.dict]_vars

\* C30: a run on the caller's datasets over two bins has fitted both and
\* returned, and the models of the sliced datasets have the fitted norm
C30_Witness ==
    /\ maps.kind = "datasets" /\ est.pc = "done" /\ out.op = "run"
    /\ Len(est.rows) = 2
    /\ maps.dict["sliced.models"] # maps.dict["models"]
    /\ fm.reference_model = SkyModel(maps.dict["models"])

\* C30: a fit has failed after the first bin, and the models of the sliced
\* datasets are not the caller's
C30_WitnessFailed ==
    /\ maps.kind = "datasets" /\ est.pc = "raised"
    /\ Len(est.rows) = 1
    /\ maps.dict["sliced.models"] # maps.dict["models"]

====
